---- MODULE Spec2Model ----
(***************************************************************************)
(* PetalVault: vault store, action reconciler and QR transport.            *)
(*                                                                         *)
(* Python dicts are modelled as functions whose DOMAIN is the set of keys  *)
(* present; Python lists as sequences.  Random values (salts, IVs, ids)    *)
(* are drawn from small sets.  Ciphertexts are symbolic: a sealed value    *)
(* remembers the key, the IV and the plaintext it was made from, and       *)
(* decryption gives the plaintext back only under the same key and IV.     *)
(***************************************************************************)
EXTENDS Integers, Sequences, FiniteSets, TLC

VARIABLES
    vault,      \* GUIMainWindow._vault (dict; empty = Closed)
    disk,       \* the vault files: path -> the dict stored as JSON
    save_timer, \* GUIMainWindow._save_timer is active
    controls,   \* the vault controls are shown and enabled (_show_hide)
    rendered,   \* ids of the entries that have a row of widgets
    last,       \* the last handler call: its inputs and what it did
    sender,     \* the other device's sync-to session: its actions, its salt
                \* and the frames (ViewDialog._datas) it shows
    thread,     \* ScanDialog._qr_scanner_thread: position in run() and fields
    dialog      \* ScanDialog: where the GUI thread is and what exec caught

scanvars == <<sender, thread, dialog>>

vars == <<vault, disk, save_timer, controls, rendered, last, sender, thread, dialog>>

----------------------------------------------------------------------------
(* Python dict / list helpers *)

EmptyDict == [k \in {} |-> 0]

None == [None |-> "None"]

\* no session on show, no worker created, the scan dialog not open
NoSession == [entries |-> <<>>, actions |-> <<>>, salt |-> "", key |-> None, datas |-> <<>>]

NoThread == [pc |-> "none", exit_flag |-> FALSE, actions |-> <<>>, exception |-> "",
             camera |-> "closed", cancelled |-> FALSE]

NoDialog == [gui |-> "idle", pending |-> FALSE, caught |-> <<>>, sync_salt |-> ""]

ScanIdle == sender = NoSession /\ thread = NoThread /\ dialog = NoDialog

Has(d, k) == k \in DOMAIN d

Get(d, k, default) == IF k \in DOMAIN d THEN d[k] ELSE default

Put(d, k, v) == [x \in (DOMAIN d) \cup {k} |-> IF x = k THEN v ELSE d[x]]

Del(d, k) == [x \in (DOMAIN d) \ {k} |-> d[x]]

Dicts(K, V) == UNION {[S -> V] : S \in SUBSET K}

Range(s) == {s[i] : i \in 1..Len(s)}

Reverse(s) == [i \in 1..Len(s) |-> s[Len(s) + 1 - i]]

RemoveAt(s, i) == [j \in 1..(Len(s) - 1) |-> IF j < i THEN s[j] ELSE s[j + 1]]

----------------------------------------------------------------------------
(* Bounded universes of inputs *)

Ids == {"a", "b"}

Vals == {"x", "y"}

\* keys the inputs use: one key of the merge list and one outside of it
InputKeys == {"site", "url"}

FieldMaps == {f \in Dicts(InputKeys, Vals) : Has(f, "url") => f["url"] = "x"}

Entries == {("id" :> i) @@ f : i \in Ids, f \in FieldMaps}

IdsOf(entries) == [i \in 1..Len(entries) |-> entries[i]["id"]]

DistinctIds(entries) ==
    \A i, j \in 1..Len(entries) : i # j => entries[i]["id"] # entries[j]["id"]

EntryLists(E) ==
    {l \in UNION {[1..n -> E] : n \in 0..Cardinality(Ids)} : DistinctIds(l)}

Entropies == {"e1", "e2"}

Salts == {"s1", "s2"}

IVs == {"iv1"}

----------------------------------------------------------------------------
(* encrypt_decrypt.py *)

MASTER_KEY_COST == 65536

\* gui_main_window.py line 84: the module's own MASTER_KEY_COST, which no
\* statement of the module reads
GUI_MASTER_KEY_COST == 1048576

\* scrypt(entropy, salt, 32, N=MASTER_KEY_COST, r=8, p=1): deterministic in
\* its inputs, different for different inputs
Scrypt(secret, salt, cost) == [secret |-> secret, salt |-> salt, N |-> cost, r |-> 8, p |-> 1]

entropy_to_master_key(entropy, master_salt) ==
    <<Scrypt(entropy, master_salt, MASTER_KEY_COST), master_salt>>

\* json.dumps(decrypted, separators=(",", ":"))[1:][:-1]: the members of the
\* dict, each a key with its value, without the braces
EntryStr(decrypted) == {<<k, decrypted[k]>> : k \in DOMAIN decrypted}

\* json.loads("{" + text + "}"): the dict of the members
EntryDict(entry_str) ==
    [k \in {m[1] : m \in entry_str} |-> (CHOOSE m \in entry_str : m[1] = k)[2]]

\* the entry sealed with the checksum taken of the JSON text with its braces
encrypt_entry_whole_checksum(decrypted, master_key, iv) ==
    ("enc" :> [key |-> master_key, iv |-> iv, padded |-> TRUE, compressed |-> TRUE,
               pt |-> EntryStr(decrypted),
               checksum |-> [md5 |-> EntryStr(decrypted) \cup {<<"{", "}">>}]])
    @@ ("iv" :> iv)

\* the dict {"enc": ..., "iv": ...}; the id is inside the ciphertext only.
\* The ciphertext is AES-CBC under master_key and iv of the padded, compressed
\* entry text followed by its MD5 checksum.
encrypt_entry(decrypted, master_key, iv) ==
    ("enc" :> [key |-> master_key, iv |-> iv, padded |-> TRUE, compressed |-> TRUE,
               pt |-> EntryStr(decrypted), checksum |-> [md5 |-> EntryStr(decrypted)]])
    @@ ("iv" :> iv)

\* a decryption that returns the entry without comparing the checksums
decrypt_entry_unverified(encrypted, master_key) ==
    IF ~(Has(encrypted, "iv") /\ Has(encrypted, "enc")) THEN None
    ELSE IF encrypted["enc"].key # master_key THEN None
    ELSE IF encrypted["enc"].iv # encrypted["iv"] THEN None
    ELSE IF ~encrypted["enc"].padded THEN None
    ELSE IF ~encrypted["enc"].compressed THEN None
    ELSE IF ~Has(EntryDict(encrypted["enc"].pt), "id") THEN None
    ELSE EntryDict(encrypted["enc"].pt)

\* any failure is caught inside and gives None: a missing member, a wrong
\* key or IV (the decrypted bytes are then no padded compressed stream),
\* Padding.unpad or zlib.decompress raising, a checksum that is not the
\* MD5 of the entry text, no "id" in the entry
decrypt_entry(encrypted, master_key) ==
    IF ~(Has(encrypted, "iv") /\ Has(encrypted, "enc")) THEN None
    ELSE IF encrypted["enc"].key # master_key THEN None
    ELSE IF encrypted["enc"].iv # encrypted["iv"] THEN None
    ELSE IF ~encrypted["enc"].padded THEN None
    ELSE IF ~encrypted["enc"].compressed THEN None
    ELSE IF encrypted["enc"].checksum # [md5 |-> encrypted["enc"].pt] THEN None
    ELSE IF ~Has(EntryDict(encrypted["enc"].pt), "id") THEN None
    ELSE EntryDict(encrypted["enc"].pt)

\* the entropy itself used as the AES key (vaults and senders below v2.0.0)
RawKey(entropy) == [secret |-> entropy, salt |-> "raw", N |-> 0, r |-> 0, p |-> 0]

\* double SHA-256 of the password, last 16 bytes
OldMnemoKey(master_password) == [secret |-> master_password, salt |-> "sha256x2", N |-> 0, r |-> 0, p |-> 0]

\* the mnemonic sealed again the way releases below 2.0.0 did
encrypt_mnemonic_old(mnemonic, master_password, master_salt_1, master_salt_2) ==
    <<[key |-> OldMnemoKey(master_password), iv |-> master_salt_2, pt |-> mnemonic,
       checksum |-> FALSE],
      master_salt_1, master_salt_2>>

\* scrypt over the master password (encrypt_mnemonic / decrypt_mnemonic)
encrypt_mnemonic(mnemonic, master_password, master_salt_1, master_salt_2) ==
    <<[key |-> Scrypt(master_password, master_salt_1, MASTER_KEY_COST),
       iv |-> master_salt_2, pt |-> mnemonic, checksum |-> TRUE],
      master_salt_1, master_salt_2>>

\* [ok |-> FALSE] stands for the exception (bad padding or checksum mismatch)
decrypt_mnemonic(mnemonic_encrypted, master_password, master_salt_1, master_salt_2) ==
    IF /\ mnemonic_encrypted.key = Scrypt(master_password, master_salt_1, MASTER_KEY_COST)
       /\ mnemonic_encrypted.iv = master_salt_2
       /\ mnemonic_encrypted.checksum
    THEN [ok |-> TRUE, val |-> mnemonic_encrypted.pt]
    ELSE [ok |-> FALSE, val |-> "exception"]

\* no checksum: under a wrong key or IV the result is an unpad / decode
\* exception or, when the padding happens to look valid, garbage words;
\* garbled says which of the two the bytes give
decrypt_mnemonic_old(mnemonic_encrypted, master_password, iv, garbled) ==
    IF mnemonic_encrypted.key = OldMnemoKey(master_password) /\ mnemonic_encrypted.iv = iv
    THEN [ok |-> TRUE, val |-> mnemonic_encrypted.pt]
    ELSE IF garbled THEN [ok |-> TRUE, val |-> "garbage"]
    ELSE [ok |-> FALSE, val |-> "exception"]

----------------------------------------------------------------------------
(* mnemonic -> entropy (Mnemonic.to_entropy of the wordlist library) *)

ValidMnemonics == {"m1", "m2"}

\* the phrases the user types into the mnemonic dialog
MnemonicsTyped == {"m1", "m2"}

to_entropy(mnemonic) ==
    IF mnemonic = "m1" THEN [ok |-> TRUE, val |-> "e1"]
    ELSE IF mnemonic = "m2" THEN [ok |-> TRUE, val |-> "e2"]
    ELSE [ok |-> FALSE, val |-> "exception"]

----------------------------------------------------------------------------
(* GUIMainWindow: helpers *)

\* next((i, item) for ... if item["id"] == unique_id), (-1, None)); indices
\* are 1-based here, 0 stands for -1
RECURSIVE FindFrom(_, _, _)
FindFrom(entries, unique_id, i) ==
    IF i > Len(entries) THEN 0
    ELSE IF entries[i]["id"] = unique_id THEN i
    ELSE FindFrom(entries, unique_id, i + 1)

\* a lookup that never finds the id
IdNeverFound(entries, unique_id) == <<0, None>>

_id_to_entry(entries, unique_id) ==
    LET i == FindFrom(entries, unique_id, 1)
    IN  <<i, IF i = 0 THEN None ELSE entries[i]>>

EntriesDecrypted(v) == Get(v, "entries_decrypted", <<>>)

\* the keys _vault_save removes from the copy it writes
SECRET_KEYS == {"mnemonic", "entropy", "path", "entries_decrypted", "master_key"}

\* the literal key list of the update branch of _vault_action
MERGE_KEYS == {"site", "user", "pass", "notes"}

\* the stored entry replaced by the incoming one
MergeReplaced(old, entry_decrypted) == entry_decrypted

\* for key in [...]: if key in entry_decrypted: entries[index][key] = entry_decrypted[key]
MergeEntry(old, entry_decrypted) ==
    [k \in (DOMAIN old) \cup ((DOMAIN entry_decrypted) \cap MERGE_KEYS) |->
        IF k \in MERGE_KEYS /\ Has(entry_decrypted, k) THEN entry_decrypted[k] ELSE old[k]]

\* a delete that removes the first entry whenever the identifier is held
DeleteEntryFirst(v, unique_id, ask_confirmation, confirm) ==
    IF v = EmptyDict \/ unique_id = "" THEN [deleted |-> FALSE, vault |-> v]
    ELSE IF _id_to_entry(EntriesDecrypted(v), unique_id)[1] = 0
    THEN [deleted |-> FALSE, vault |-> v]
    ELSE [deleted |-> TRUE, vault |-> Put(v, "entries_decrypted", Tail(EntriesDecrypted(v)))]

\* _delete_entry(unique_id, ask_confirmation, save=False, rerender=False)
\* without its save: the vault dict afterwards.  confirm is the user's
\* answer, asked only when ask_confirmation is set and the entry exists.
DeleteEntryCore(v, unique_id, ask_confirmation, confirm) ==
    IF v = EmptyDict \/ unique_id = "" THEN [deleted |-> FALSE, vault |-> v]
    ELSE LET found == _id_to_entry(EntriesDecrypted(v), unique_id)
         IN  IF found[1] = 0 \/ found[2] \in {None, EmptyDict} THEN [deleted |-> FALSE, vault |-> v]
             ELSE IF ask_confirmation /\ ~confirm THEN [deleted |-> FALSE, vault |-> v]
             ELSE [deleted |-> TRUE,
                   vault |-> Put(v, "entries_decrypted", RemoveAt(EntriesDecrypted(v), found[1]))]

\* a sealed action that does not open taken as it came
ActionEntryAsItCame(action, sync_key, new_id) ==
    LET dec == IF Has(action, "enc") /\ Has(action, "iv") /\ sync_key # None
                  /\ decrypt_entry(action, sync_key) # None
               THEN decrypt_entry(action, sync_key)
               ELSE Del(action, "act")
    IN  [ok |-> TRUE, val |-> IF Has(dec, "id") THEN dec ELSE Put(dec, "id", new_id)]

\* the entry an add / sync action stands for: [ok |-> FALSE] is the exception
\* ("No sync_key provided", or the TypeError of '"id" not in None')
ActionEntry(action, sync_key, new_id) ==
    LET dec == IF Has(action, "enc") /\ Has(action, "iv")
               THEN IF sync_key = None THEN [ok |-> FALSE, val |-> None]
                    ELSE LET d == decrypt_entry(action, sync_key)
                         IN  [ok |-> d # None, val |-> d]
               ELSE [ok |-> TRUE, val |-> Del(action, "act")]
    IN  IF ~dec.ok THEN dec
        ELSE IF ~Has(dec.val, "id") THEN [ok |-> TRUE, val |-> Put(dec.val, "id", new_id)]
        ELSE dec

\* _vault_action up to (and without) its trailing save and re-render.
\*   how = "early"     : returned True before the try (no vault, no "act")
\*   how = "exception" : returned False
\*   how = "done"      : fell through to the save / re-render, returns True
VaultActionCore(v, action, sync_key, new_id) ==
    IF v = EmptyDict THEN [how |-> "early", vault |-> v]
    ELSE IF Get(action, "act", "") = "" THEN [how |-> "early", vault |-> v]
    ELSE IF action["act"] \in {"new", "add", "sync"}
    THEN LET e == ActionEntry(action, sync_key, new_id)
         IN  IF ~e.ok THEN [how |-> "exception", vault |-> v]
             ELSE LET entries == EntriesDecrypted(v)
                      index_decrypted == _id_to_entry(entries, e.val["id"])[1]
                  IN  IF index_decrypted = 0
                      THEN [how |-> "done",
                            vault |-> Put(v, "entries_decrypted", <<e.val>> \o entries)]
                      ELSE [how |-> "done",
                            vault |-> Put(v, "entries_decrypted",
                                [entries EXCEPT ![index_decrypted] = MergeEntry(@, e.val)])]
    ELSE IF action["act"] = "delete"
    THEN [how |-> "done",
          vault |-> DeleteEntryCore(v, Get(action, "id", ""), FALSE, FALSE).vault]
    ELSE [how |-> "done", vault |-> v]

----------------------------------------------------------------------------
(* _vault_save *)

SafeChars == {"v", "w", "1", " "}

RECURSIVE RStrip(_)
RStrip(name) ==
    IF name = <<>> THEN name
    ELSE IF name[Len(name)] = " " THEN RStrip(SubSeq(name, 1, Len(name) - 1))
    ELSE name

\* "".join(c for c in name if c.isalpha() or c.isdigit() or c == " ").rstrip()
\* (the directory and the ".json" suffix are the same for every vault)
SafeFilePath(name) == RStrip(SelectSeq(name, LAMBDA c : c \in SafeChars))

\* __version__ of _version.py, as <<major, minor>>
RunningVersion == <<2, 0>>

\* a comparison that lets every version pass
VersionNeverGreater(a, b) == FALSE

VersionGreater(a, b) == a[1] > b[1] \/ (a[1] = b[1] /\ a[2] > b[2])

\* the dict written as it is in memory, with the version stamped
SavedWhole(v, ivs) == Put(v, "version", RunningVersion)

\* the dict written without the salt of the key that sealed its entries
SavedSaltless(v, ivs) ==
    LET entries_encrypted ==
            [i \in 1..Len(EntriesDecrypted(v)) |->
                encrypt_entry(EntriesDecrypted(v)[i], v["master_key"], ivs[i])]
        vault_ == Put(v, "entries", entries_encrypted)
        stripped == [k \in (DOMAIN vault_) \ (SECRET_KEYS \cup {"master_salt"}) |-> vault_[k]]
    IN  Put(stripped, "version", RunningVersion)

\* the dict written with the entries sealed last to first
SavedReversed(v, ivs) ==
    LET entries_encrypted ==
            [i \in 1..Len(EntriesDecrypted(v)) |->
                encrypt_entry(Reverse(EntriesDecrypted(v))[i], v["master_key"], ivs[i])]
        vault_ == Put(v, "entries", entries_encrypted)
        stripped == [k \in (DOMAIN vault_) \ SECRET_KEYS |-> vault_[k]]
    IN  Put(stripped, "version", RunningVersion)

\* the dict json.dumps writes: the copy with the entries re-encrypted, the
\* secrets deleted and the version set
SavedFile(v, ivs) ==
    LET entries_encrypted ==
            [i \in 1..Len(EntriesDecrypted(v)) |->
                encrypt_entry(EntriesDecrypted(v)[i], v["master_key"], ivs[i])]
        vault_ == Put(v, "entries", entries_encrypted)
        stripped == [k \in (DOMAIN vault_) \ SECRET_KEYS |-> vault_[k]]
    IN  Put(stripped, "version", RunningVersion)

\* _vault_save(filepath): filepath <<>> is None.  Result: the path written
\* (<<>> for None), the disk and the save timer afterwards.
VaultSave(v, d, timer, filepath, ivs) ==
    IF v = EmptyDict THEN [ret |-> <<>>, disk |-> d, timer |-> timer]
    ELSE IF filepath = <<>> /\ ~Has(v, "name")
    THEN [ret |-> <<>>, disk |-> d, timer |-> FALSE]
    ELSE IF EntriesDecrypted(v) # <<>> /\ ~Has(v, "master_key")
    THEN [ret |-> <<>>, disk |-> d, timer |-> FALSE]
    ELSE LET path == IF filepath = <<>> THEN SafeFilePath(v["name"]) ELSE filepath
         IN  [ret |-> path, disk |-> Put(d, path, SavedFile(v, ivs)), timer |-> FALSE]

----------------------------------------------------------------------------
(* _close_vault: self._vault.clear() *)

\* the vault dict left as it was
CloseVaultKept(v) == v

CloseVaultCore(v) == EmptyDict

----------------------------------------------------------------------------
(* _open_vault *)

\* the inner try of _open_vault (mnemonic from the dialog or from the master
\* password, then to_entropy).  inp: the user's inputs and the random bytes
\*   pw_accepted, pw : the master password dialog (asked only for a protected file)
\*   mnemonic        : the mnemonic dialog ("" = dismissed); it only gives
\*                     phrases that convert to entropy
\*   garbled         : see decrypt_mnemonic_old
\*   salt_1, salt_2  : the salts of the re-encryption of a legacy mnemonic
\* Result how: "return" (prompt dismissed), "exception", "ok"
OpenMnemonic(f, master_password, inp) ==
    IF master_password = ""
    THEN IF inp.mnemonic = "" THEN [how |-> "return", vault |-> f, mnemonic |-> ""]
         ELSE [how |-> "ok", vault |-> f, mnemonic |-> inp.mnemonic]
    ELSE IF f["version"][1] < 2
    THEN IF ~Has(f, "mnemonic_encrypted_iv") THEN [how |-> "exception", vault |-> f, mnemonic |-> ""]
         ELSE LET m == decrypt_mnemonic_old(f["mnemonic_encrypted"], master_password,
                                            f["mnemonic_encrypted_iv"], inp.garbled)
                  enc == encrypt_mnemonic(m.val, master_password, inp.salt_1, inp.salt_2)
                  f1 == Del(Del(f, "mnemonic_encrypted"), "mnemonic_encrypted_iv")
                  f2 == Put(Put(Put(f1, "mnemonic_encrypted", enc[1]),
                                "mnemonic_salt_1", enc[2]), "mnemonic_salt_2", enc[3])
              IN  IF ~m.ok THEN [how |-> "exception", vault |-> f, mnemonic |-> ""]
                  ELSE [how |-> "ok", vault |-> f2, mnemonic |-> m.val]
    ELSE IF ~(Has(f, "mnemonic_salt_1") /\ Has(f, "mnemonic_salt_2"))
    THEN [how |-> "exception", vault |-> f, mnemonic |-> ""]
    ELSE LET m == decrypt_mnemonic(f["mnemonic_encrypted"], master_password,
                                   f["mnemonic_salt_1"], f["mnemonic_salt_2"])
         IN  IF ~m.ok THEN [how |-> "exception", vault |-> f, mnemonic |-> ""]
             ELSE [how |-> "ok", vault |-> f, mnemonic |-> m.val]

\* the entries of the file that carry both "enc" and "iv"
StoredEntries(f) ==
    SelectSeq(Get(f, "entries", <<>>), LAMBDA e : Has(e, "enc") /\ Has(e, "iv"))

\* lines 486-515: [ok |-> FALSE] is 'raise Exception("Unable to decrypt entry")'
OpenDecryptEntries(v, entropy) ==
    IF ~(Has(v, "master_salt") \/ v["version"][1] < 2) THEN [ok |-> TRUE, vault |-> v]
    ELSE LET master_key == IF v["version"][1] >= 2
                           THEN entropy_to_master_key(entropy, v["master_salt"])[1]
                           ELSE RawKey(entropy)
             stored == StoredEntries(v)
             entries_decrypted == [i \in 1..Len(stored) |-> decrypt_entry(stored[i], master_key)]
         IN  IF \E i \in 1..Len(stored) : entries_decrypted[i] = None
             THEN [ok |-> FALSE, vault |-> v]
             ELSE [ok |-> TRUE, vault |-> Put(v, "entries_decrypted", entries_decrypted)]

\* an open that keeps the key of the salt the file stores
OpenFinishStale(v, path, new_salt) ==
    LET km == entropy_to_master_key(v["entropy"], Get(v, "master_salt", new_salt))
    IN  Put(Put(Put(v, "path", path), "master_key", km[1]), "master_salt", km[2])

\* lines 527-538: set the path, drop the encrypted entries, rotate the key
OpenFinish(v, path, new_salt) ==
    LET v1 == Put(v, "path", path)
        v2 == IF Has(v1, "entries") /\ Len(v1["entries"]) # 0
              THEN Put(v1, "entries", <<>>) ELSE v1
        km == entropy_to_master_key(v2["entropy"], new_salt)
    IN  Put(Put(v2, "master_key", km[1]), "master_salt", km[2])

\* _open_vault(path, close_before).  Result: the vault dict afterwards,
\*   how = "no_path"        : the selection was cancelled
\*         "open_error"      : the outer except
\*         "mnemonic_error"  : the inner except
\*         "no_password"     : empty master password entered (line 429)
\*         "no_mnemonic"     : mnemonic dialog dismissed (line 439)
\*         "opened"
\* and the step that raised: "file", "version", "mnemonic" (decrypt_mnemonic /
\* decrypt_mnemonic_old), "entropy" (to_entropy), "entry" (decrypt_entry)
OpenResult(how, step, v) == [how |-> how, step |-> step, vault |-> v]

OpenVaultCore(v0, d, path, close_before, inp) ==
    IF path = <<>> THEN OpenResult("no_path", "", v0)
    ELSE LET v1 == IF close_before THEN CloseVaultCore(v0) ELSE v0
         IN  IF v1 # EmptyDict THEN OpenResult("opened", "", OpenFinish(v1, path, inp.new_salt))
             ELSE IF ~Has(d, path) THEN OpenResult("open_error", "file", CloseVaultCore(v1))
             ELSE LET f == d[path]
                  IN  IF ~Has(f, "version") THEN OpenResult("open_error", "version", CloseVaultCore(f))
                      ELSE IF VersionGreater(f["version"], RunningVersion)
                      THEN OpenResult("open_error", "version", CloseVaultCore(f))
                      ELSE LET asked == Has(f, "mnemonic_encrypted")
                               master_password == IF asked /\ inp.pw_accepted THEN inp.pw ELSE ""
                           IN  IF asked /\ inp.pw_accepted /\ inp.pw = ""
                               THEN OpenResult("no_password", "", f)
                               ELSE LET m == OpenMnemonic(f, master_password, inp)
                                        entropy == to_entropy(m.mnemonic)
                                        v2 == Put(Put(m.vault, "mnemonic", m.mnemonic),
                                                  "entropy", entropy.val)
                                        dec == OpenDecryptEntries(v2, entropy.val)
                                    IN  IF m.how = "return" THEN OpenResult("no_mnemonic", "", f)
                                        ELSE IF m.how = "exception"
                                        THEN OpenResult("mnemonic_error", "mnemonic", CloseVaultCore(m.vault))
                                        ELSE IF ~entropy.ok
                                        THEN OpenResult("mnemonic_error", "entropy", CloseVaultCore(m.vault))
                                        ELSE IF ~dec.ok
                                        THEN OpenResult("open_error", "entry", CloseVaultCore(v2))
                                        ELSE OpenResult("opened", "",
                                                        OpenFinish(dec.vault, path, inp.new_salt))

----------------------------------------------------------------------------
(* _sync_from *)

\* the loop of lines 315-317: apply the actions in order, stop at the first
\* one for which _vault_action returns False.  new_ids[i] is the token
\* secrets.token_urlsafe gives while action i is applied.
RECURSIVE ApplyActions(_, _, _, _, _)
ApplyActions(v, actions, sync_key, new_ids, i) ==
    IF i > Len(actions) THEN [ok |-> TRUE, vault |-> v, failed_at |-> 0]
    ELSE LET r == VaultActionCore(v, actions[i], sync_key, new_ids[i])
         IN  IF r.how = "exception" THEN [ok |-> FALSE, vault |-> v, failed_at |-> i]
             ELSE ApplyActions(r.vault, actions, sync_key, new_ids, i + 1)

\* lines 309-312; a scanned salt of None is the string ""
SyncFromKey(v, sync_salt) ==
    IF sync_salt = "" THEN RawKey(v["entropy"])
    ELSE entropy_to_master_key(v["entropy"], sync_salt)[1]

----------------------------------------------------------------------------
(* _sync_to *)

\* a device of the "devices" map is {"entries": [...], "salt": s} (v >= 2.0.0)
\* or a bare list (v < 2.0.0); the bare list l is written ("list" :> l)
IsOldDevice(dev) == Has(dev, "list")

DeviceEntries(dev) == IF IsOldDevice(dev) THEN dev["list"] ELSE Get(dev, "entries", <<>>)

\* lines 992-995
DeviceKey(v, dev) ==
    IF IsOldDevice(dev) THEN RawKey(v["entropy"])
    ELSE entropy_to_master_key(v["entropy"], dev["salt"])[1]

\* lines 1010-1014: a delete for every device id that the vault does not hold
DeleteActions(device_entry_ids, entry_ids) ==
    LET gone == SelectSeq(device_entry_ids, LAMBDA i : i \notin Range(entry_ids))
    IN  [k \in 1..Len(gone) |-> ("act" :> "delete") @@ ("id" :> gone[k])]

\* lines 1019-1033: the vault's ids from bottom to top; an entry equal to the
\* device's copy is skipped, the others are sealed under the session key
RECURSIVE AddSyncActions(_, _, _, _, _, _)
AddSyncActions(entries, device_entries_decrypted, ids_reversed, sync_key, ivs, k) ==
    IF k > Len(ids_reversed) THEN <<>>
    ELSE LET entry_id == ids_reversed[k]
             entry_decrypted == _id_to_entry(entries, entry_id)[2]
             device_entry_decrypted == _id_to_entry(device_entries_decrypted, entry_id)[2]
             rest == AddSyncActions(entries, device_entries_decrypted, ids_reversed,
                                    sync_key, ivs, k + 1)
         IN  IF /\ device_entry_decrypted \notin {None, EmptyDict}
                /\ device_entry_decrypted = entry_decrypted
             THEN rest
             ELSE <<Put(encrypt_entry(entry_decrypted, sync_key, ivs[k]), "act",
                        IF entry_id \notin Range(IdsOf(device_entries_decrypted))
                        THEN "add" ELSE "sync")>> \o rest

\* a diff that sends every vault entry, the device's copies not looked at
DiffEverything(entries, device_entries_decrypted, sync_key, ivs) ==
    DeleteActions(IdsOf(device_entries_decrypted), IdsOf(entries))
        \o AddSyncActions(entries, <<>>, Reverse(IdsOf(entries)), sync_key, ivs, 1)

\* a diff that appends the deletes after the add and sync actions
DiffDeletesLast(entries, device_entries_decrypted, sync_key, ivs) ==
    AddSyncActions(entries, device_entries_decrypted, Reverse(IdsOf(entries)),
                   sync_key, ivs, 1)
        \o DeleteActions(IdsOf(device_entries_decrypted), IdsOf(entries))

\* lines 1005-1033
DiffActions(entries, device_entries_decrypted, sync_key, ivs) ==
    DeleteActions(IdsOf(device_entries_decrypted), IdsOf(entries))
        \o AddSyncActions(entries, device_entries_decrypted, Reverse(IdsOf(entries)),
                          sync_key, ivs, 1)

\* ViewDialog.exec(self, title, description, actions=None, mnemonic=None):
\* a call with any other keyword argument raises TypeError
VIEW_EXEC_KEYWORDS == {"actions", "mnemonic"}

ViewDialogExecAccepts(keywords) == keywords \subseteq VIEW_EXEC_KEYWORDS

\* lines 1057-1073: the device's entry in the "devices" map after the sync
StoreDevice(v, device_name, sync_key, sync_salt, ivs) ==
    LET devices == Get(v, "devices", EmptyDict)
        snapshot == [i \in 1..Len(EntriesDecrypted(v)) |->
                        encrypt_entry(EntriesDecrypted(v)[i], sync_key, ivs[i])]
        old == IF Has(devices, device_name) /\ ~IsOldDevice(devices[device_name])
               THEN devices[device_name] ELSE EmptyDict
    IN  Put(v, "devices",
            Put(devices, device_name, Put(Put(old, "entries", snapshot), "salt", sync_salt)))

\* _sync_to(clean_device) up to its trailing save.
\*   choice   : the device picked in the combo box, "" = cancelled,
\*              "+" = the entry "new device"
\*   new_name : the text of the new-device prompt, stripped ("" = none)
\* Result how: "early", "cancelled", "exception" (the except branch),
\*   "nothing" (empty action list), "shown" (QR codes displayed)
SyncToCore(v, clean_device, choice, new_name, sync_salt, ivs, snap_ivs) ==
    LET nothing == [how |-> "early", vault |-> v, actions |-> <<>>, snap |-> <<>>,
                    device |-> "", key |-> None]
    IN
    IF v = EmptyDict \/ EntriesDecrypted(v) = <<>> THEN nothing
    ELSE
    LET devices == Get(v, "devices", EmptyDict)
        ask == ~clean_device /\ DOMAIN devices # {}
        picked == ask /\ choice \in DOMAIN devices
        device_name == IF clean_device THEN ""
                       ELSE IF picked THEN choice ELSE new_name
        device_entries == IF picked THEN DeviceEntries(devices[choice]) ELSE <<>>
        device_key == IF picked THEN DeviceKey(v, devices[choice]) ELSE RawKey(v["entropy"])
        device_entries_decrypted ==
            [i \in 1..Len(device_entries) |-> decrypt_entry(device_entries[i], device_key)]
        km == entropy_to_master_key(v["entropy"], sync_salt)
        actions == DiffActions(EntriesDecrypted(v), device_entries_decrypted, km[1], ivs)
        out(how_, v_, acts_) == [how |-> how_, vault |-> v_, actions |-> acts_,
                                 snap |-> device_entries_decrypted,
                                 device |-> device_name, key |-> km[1]]
    IN  IF ask /\ choice = "" THEN [nothing EXCEPT !.how = "cancelled"]
        ELSE IF ~clean_device /\ device_name = "" THEN [nothing EXCEPT !.how = "cancelled"]
        ELSE IF picked /\ ~IsOldDevice(devices[choice]) /\ ~Has(devices[choice], "salt")
        THEN [nothing EXCEPT !.how = "exception"]
        ELSE IF \E i \in 1..Len(device_entries) : device_entries_decrypted[i] = None
        THEN [nothing EXCEPT !.how = "exception"]
        ELSE IF Len(actions) = 0 THEN out("nothing", v, actions)
        ELSE IF ~ViewDialogExecAccepts({"actions", "sync_salt"}) THEN out("exception", v, actions)
        ELSE IF device_name # ""
        THEN out("shown", StoreDevice(v, device_name, km[1], sync_salt, snap_ivs), actions)
        ELSE out("shown", v, actions)

----------------------------------------------------------------------------
(* The handlers *)

NoCall == [op |-> "init", how |-> "", action |-> EmptyDict, actions |-> <<>>, sync_key |-> None]

PASSWORDS == {"x"}

\* secrets.token_urlsafe(8) for a new entry
NEW_IDS == {"b"}

\* the texts the model types into a line edit
EDIT_TEXTS == {"y"}

DeviceNames == {"d1", "d2"}

IvSeqs == [1..Cardinality(Ids) -> IVs]

\* secrets.token_bytes(32) for a key rotation: a value the vault does not hold
FreshSalts(v) == Salts \ {Get(v, "master_salt", "")}

\* _render_vault_entries (no search filter)
Rendered(v) == Range(IdsOf(EntriesDecrypted(v)))

\* A call that returns before it changed anything (a cancelled dialog, a
\* guard at the top of the handler) is a stuttering step and leaves last alone.
Call(op, how, action, actions) ==
    [op |-> op, how |-> how, action |-> action, actions |-> actions, sync_key |-> None]

\* _vault_action(action, sync_key, save, rerender) as a step
VaultActionStep(op, action, sync_key, save, rerender, new_id, ivs) ==
    LET r == VaultActionCore(vault, action, sync_key, new_id)
        s == VaultSave(r.vault, disk, save_timer, Get(r.vault, "path", <<>>), ivs)
    IN  /\ vault' = r.vault
        /\ IF r.how = "done" /\ save
           THEN disk' = s.disk /\ save_timer' = s.timer
           ELSE UNCHANGED <<disk, save_timer>>
        /\ rendered' = IF r.how = "done" /\ rerender THEN Rendered(r.vault) ELSE rendered
        /\ last' = [Call(op, r.how, action, <<>>) EXCEPT !.sync_key = sync_key]
        /\ UNCHANGED scanvars

\* _add_entry: the button is shown while a vault is open
AddEntry ==
    /\ controls
    /\ \E password \in PASSWORDS, new_id \in NEW_IDS, ivs \in IvSeqs :
        /\ VaultActionStep("add_entry", ("act" :> "add") @@ ("pass" :> password),
                           None, TRUE, TRUE, new_id, ivs)
        /\ UNCHANGED controls

\* the fields whose line edits the model types into
EDIT_FIELDS == {"site"}

\* _entry_text_changed(unique_id, field, line_edit): textEdited of a rendered row
EntryTextChanged ==
    \E unique_id \in rendered, field \in EDIT_FIELDS, text \in EDIT_TEXTS, new_id \in NEW_IDS :
        LET action == ("id" :> unique_id) @@ ("act" :> "sync") @@ (field :> text)
            r == VaultActionCore(vault, action, None, new_id)
        IN  /\ vault' = r.vault
            /\ save_timer' = TRUE
            /\ UNCHANGED <<disk, controls, rendered, scanvars>>
            /\ last' = Call("entry_text_changed", r.how, action, <<>>)

\* the timeout slot of _save_timer: lambda: self._vault_save(self._vault["path"]);
\* without "path" the lambda raises KeyError and the timer keeps running
SaveTimerTimeout ==
    /\ save_timer
    /\ \E ivs \in IvSeqs :
        LET s == VaultSave(vault, disk, save_timer, vault["path"], ivs)
        IN  IF Has(vault, "path")
            THEN /\ disk' = s.disk
                 /\ save_timer' = s.timer
                 /\ last' = Call("save_timer", "saved", EmptyDict, <<>>)
            ELSE /\ UNCHANGED <<disk, save_timer>>
                 /\ last' = Call("save_timer", "exception", EmptyDict, <<>>)
    /\ UNCHANGED <<vault, controls, rendered, scanvars>>

\* the delete button of a rendered row: _delete_entry(unique_id, True, True, True)
DeleteEntry ==
    \E unique_id \in rendered, confirm \in BOOLEAN, ivs \in IvSeqs :
        LET r == DeleteEntryCore(vault, unique_id, TRUE, confirm)
            s == VaultSave(r.vault, disk, save_timer, Get(r.vault, "path", <<>>), ivs)
        IN  IF r.deleted
            THEN /\ vault' = r.vault
                 /\ disk' = s.disk
                 /\ save_timer' = s.timer
                 /\ rendered' = Rendered(r.vault)
                 /\ UNCHANGED <<controls, scanvars>>
                 /\ last' = Call("delete_entry", "deleted", ("id" :> unique_id), <<>>)
            ELSE UNCHANGED vars

CloseVault ==
    /\ controls
    /\ vault' = CloseVaultCore(vault)
    /\ controls' = FALSE
    /\ rendered' = {}
    /\ UNCHANGED <<disk, save_timer, scanvars>>
    /\ last' = Call("close_vault", "", EmptyDict, <<>>)

PasswordsTyped == {"", "pw1", "bad"}

\* the inputs of one _open_vault call on file f; a dialog that is not shown
\* has no input
OpenInputs(f) ==
    LET asked == Has(f, "mnemonic_encrypted")
        old == Has(f, "version") /\ f["version"][1] < 2
    IN  {inp \in [pw_accepted : BOOLEAN, pw : PasswordsTyped, mnemonic : MnemonicsTyped \cup {""},
                  garbled : BOOLEAN, salt_1 : Salts, salt_2 : IVs, new_salt : FreshSalts(f)] :
            /\ (~asked => ~inp.pw_accepted)
            /\ (~inp.pw_accepted => inp.pw = "")
            /\ (inp.pw_accepted /\ inp.pw # "" => inp.mnemonic = "")
            /\ (~(inp.pw_accepted /\ inp.pw \notin {"", "pw1"} /\ old) => ~inp.garbled)
            /\ (~(inp.pw_accepted /\ inp.pw # "" /\ old) => inp.salt_1 = "s1" /\ inp.salt_2 = "iv1")}

\* _open_vault(path) from the menu or the recent list (close_before = True);
\* path <<>> is a cancelled selection
OpenVault ==
    \E path \in (DOMAIN disk) \cup {<<>>} :
        \E inp \in OpenInputs(IF path = <<>> THEN EmptyDict ELSE disk[path]) :
            LET r == OpenVaultCore(vault, disk, path, TRUE, inp)
            IN  IF r.how = "no_path" THEN UNCHANGED vars
                ELSE /\ vault' = r.vault
                     /\ controls' = (r.how = "opened")
                     /\ rendered' = IF r.how = "opened" THEN Rendered(r.vault) ELSE {}
                     /\ UNCHANGED <<disk, save_timer, scanvars>>
                     /\ last' = Call("open_vault", r.how,
                                      ("step" :> r.step)
                                      @@ ("master_password" :>
                                            IF inp.pw_accepted THEN inp.pw ELSE ""),
                                      <<>>)

\* the longest scanned action list the model feeds to _sync_from
MaxScanned == 2

\* the key the sending vault sealed its actions under in the scanned sessions
SenderKey == Scrypt("e1", "s1", MASTER_KEY_COST)

\* actions a scan can deliver: any JSON objects, plaintext or sealed
ScannedActions ==
    { ("act" :> "sync") @@ ("id" :> "a") @@ ("site" :> "y"),
      Put(encrypt_entry(("id" :> "b") @@ ("site" :> "x"), SenderKey, "iv1"), "act", "add") }

ScannedLists == UNION {[1..n -> ScannedActions] : n \in 1..MaxScanned}

\* _sync_from after ScanDialog.exec gave (actions, sync_salt): lines 307-329.
\* A sync_salt of None is the string "".
SyncFromApply(scanned, sync_salt, new_ids, ivs) ==
    LET sync_key == SyncFromKey(vault, sync_salt)
        r == ApplyActions(vault, scanned, sync_key, new_ids, 1)
        s == VaultSave(r.vault, disk, save_timer, Get(r.vault, "path", <<>>), ivs)
    IN  /\ vault' = r.vault
        /\ IF r.ok
           THEN disk' = s.disk /\ save_timer' = s.timer
           ELSE UNCHANGED <<disk, save_timer>>
        /\ rendered' = IF r.ok /\ s.ret # <<>> THEN Rendered(r.vault) ELSE rendered
        /\ UNCHANGED controls
        /\ last' = [Call("sync_from",
                         IF ~r.ok THEN "failed"
                         ELSE IF s.ret = <<>> THEN "save_failed" ELSE "applied",
                         [failed_at |-> r.failed_at], <<>>) EXCEPT !.sync_key = sync_key]

\* _sync_from() from the button, the scan session taken as one step: what
\* ScanDialog.exec may return by its signature, None (<<>>) or a non-empty
\* action list with a salt, is an input.  (SyncFromBegin .. SyncFromEnd below
\* run the session itself.)
SyncFrom ==
    /\ controls
    /\ vault # EmptyDict
    /\ \E scanned \in {<<>>} \cup ScannedLists, sync_salt \in {"s1", ""},
          new_ids \in [1..MaxScanned -> NEW_IDS], ivs \in IvSeqs :
        IF scanned = <<>> THEN UNCHANGED vars
        ELSE /\ (\A i \in 1..Len(scanned) : ~Has(scanned[i], "enc")) => sync_salt = ""
             /\ SyncFromApply(scanned, sync_salt, new_ids, ivs)
             /\ UNCHANGED scanvars

\* _sync_to(clean_device): the export menu entry (True) or the sync button (False)
SyncTo ==
    /\ controls
    /\ \E clean_device \in BOOLEAN, choice \in DeviceNames \cup {"", "+"},
          new_name \in DeviceNames \cup {""}, sync_salt \in FreshSalts(vault),
          ivs \in IvSeqs, snap_ivs \in IvSeqs :
        LET r == SyncToCore(vault, clean_device, choice, new_name, sync_salt, ivs, snap_ivs)
            s == VaultSave(r.vault, disk, save_timer, Get(r.vault, "path", <<>>), snap_ivs)
        IN  /\ (clean_device => choice = "" /\ new_name = "")
            /\ (choice \in DOMAIN Get(vault, "devices", EmptyDict) \cup {""} => new_name = "")
            /\ (choice \in DeviceNames => choice \in DOMAIN Get(vault, "devices", EmptyDict))
            /\ IF r.how \in {"early", "cancelled"} THEN UNCHANGED vars
               ELSE /\ vault' = r.vault
                    /\ IF r.how = "shown" /\ r.device # ""
                       THEN disk' = s.disk /\ save_timer' = s.timer
                       ELSE UNCHANGED <<disk, save_timer>>
                    /\ UNCHANGED <<controls, rendered, scanvars>>
                    /\ last' = Call("sync_to", r.how,
                                     ("device" :> r.device) @@ ("sync_salt" :> sync_salt),
                                     r.actions)

\* _delete_device(device_name) from the menu of the vault's devices
DeleteDevice ==
    /\ controls
    /\ \E device_name \in DOMAIN Get(vault, "devices", EmptyDict), confirm \in BOOLEAN,
          ivs \in IvSeqs :
        LET v1 == Put(vault, "devices", Del(vault["devices"], device_name))
            s == VaultSave(v1, disk, save_timer, <<>>, ivs)
        IN  IF confirm
            THEN /\ vault' = v1
                 /\ disk' = s.disk
                 /\ save_timer' = s.timer
                 /\ UNCHANGED <<controls, rendered, scanvars>>
                 /\ last' = Call("delete_device", "deleted", EmptyDict, <<>>)
            ELSE UNCHANGED vars

----------------------------------------------------------------------------
(* The vault files the program starts with *)

VaultName == <<"v">>

\* the entries of a file or of a device snapshot, sealed under one key
Sealed(entries, key) == [i \in 1..Len(entries) |-> encrypt_entry(entries[i], key, "iv1")]

\* a current-format file of a vault with entropy e1: entries under the master
\* key of the stored salt, one device with its snapshot under its own salt
CurrentFile(entries, snapshot) ==
    [name |-> VaultName, version |-> RunningVersion, master_salt |-> "s1",
     entries |-> Sealed(entries, Scrypt("e1", "s1", MASTER_KEY_COST)),
     devices |-> ("d1" :> [entries |-> Sealed(snapshot, Scrypt("e1", "s2", MASTER_KEY_COST)),
                            salt |-> "s2"])]

\* the same vault with its mnemonic m1 stored under the master password pw1
ProtectedFile(entries) ==
    LET enc == encrypt_mnemonic("m1", "pw1", "s1", "iv1")
    IN  [name |-> VaultName, version |-> RunningVersion, master_salt |-> "s1",
         entries |-> Sealed(entries, Scrypt("e1", "s1", MASTER_KEY_COST)),
         devices |-> EmptyDict,
         mnemonic_encrypted |-> enc[1], mnemonic_salt_1 |-> enc[2], mnemonic_salt_2 |-> enc[3]]

LegacyVersion == <<1, 0>>

\* a file written below v2.0.0: the entropy itself is the entry key, no salts
LegacyFile(entries) ==
    [name |-> VaultName, version |-> LegacyVersion,
     entries |-> Sealed(entries, RawKey("e1")), devices |-> EmptyDict]

\* ... with the mnemonic under the double SHA-256 of pw1 and a stored IV
LegacyProtectedFile(entries) ==
    [name |-> VaultName, version |-> LegacyVersion,
     entries |-> Sealed(entries, RawKey("e1")), devices |-> EmptyDict,
     mnemonic_encrypted |-> [key |-> OldMnemoKey("pw1"), iv |-> "iv1", pt |-> "m1",
                             checksum |-> FALSE],
     mnemonic_encrypted_iv |-> "iv1"]

NewerVersion == <<2, 1>>

\* a file saved by a later release
NewerFile(entries) ==
    [name |-> VaultName, version |-> NewerVersion, master_salt |-> "s1",
     entries |-> Sealed(entries, Scrypt("e1", "s1", MASTER_KEY_COST)), devices |-> EmptyDict]

\* a file whose second stored entry is not under the vault's key
DamagedFile(entries) ==
    [name |-> VaultName, version |-> RunningVersion, master_salt |-> "s1",
     entries |-> Sealed(entries, Scrypt("e1", "s1", MASTER_KEY_COST))
                 \o Sealed(entries, Scrypt("e2", "s2", MASTER_KEY_COST)),
     devices |-> EmptyDict]

FirstEntries == <<("id" :> "a") @@ ("site" :> "x")>>

FirstSnapshot == <<("id" :> "b") @@ ("site" :> "x"), ("id" :> "a") @@ ("site" :> "x")>>

\* the files the vault directory can hold when the program starts
OpenFiles ==
    {CurrentFile(FirstEntries, <<>>), ProtectedFile(FirstEntries), LegacyFile(FirstEntries),
     LegacyProtectedFile(FirstEntries), NewerFile(FirstEntries), DamagedFile(FirstEntries)}

\* after construction: no vault open, the controls hidden, the timer idle
Started(files) ==
    /\ vault = EmptyDict
    /\ disk \in {(SafeFilePath(VaultName) :> f) : f \in files}
    /\ save_timer = FALSE
    /\ controls = FALSE
    /\ rendered = {}
    /\ last = NoCall
    /\ ScanIdle

Init == Started({CurrentFile(FirstEntries, FirstSnapshot)})

Next ==
    \/ OpenVault
    \/ CloseVault
    \/ AddEntry
    \/ EntryTextChanged
    \/ SaveTimerTimeout
    \/ DeleteEntry
    \/ SyncFrom
    \/ SyncTo
    \/ DeleteDevice

Spec == Init /\ [][Next]_vars

\* opening, editing and closing over every kind of stored file
OpenInit == Started(OpenFiles)

OpenNext ==
    \/ OpenVault
    \/ CloseVault
    \/ AddEntry
    \/ EntryTextChanged
    \/ SaveTimerTimeout
    \/ DeleteEntry

OpenSpec == OpenInit /\ [][OpenNext]_vars

----------------------------------------------------------------------------
(* _create_vault and _rename_vault: the names and the files of several vaults *)

\* str.strip() of the text of the name dialog
Strip(name) == RStrip(Reverse(RStrip(Reverse(name))))

\* the texts typed into the name dialogs
TypedNames == {<<>>, <<" ", "v">>, <<"w">>, <<"v", "!">>}

\* self._vaults as _update_vaults leaves it (lines 259-267): the (path, name)
\* of every listed file that can be read; every file written is listed
Vaults(d) == {<<p, d[p]["name"]>> : p \in {q \in DOMAIN d : Has(d[q], "name")}}

\* the inputs of the dialogs of _create_vault after the name
CreateInputs ==
    {inp \in [mnemonic : {"", "m1"}, confirm : BOOLEAN, pw : {"", "pw1"},
              salt_1 : {"s1"}, salt_2 : IVs, new_salt : Salts] :
        /\ (inp.mnemonic = "" => ~inp.confirm)
        /\ (~inp.confirm => inp.pw = "")}

\* _create_vault(from_device=False) after its _close_vault (line 567).
\* Result how: "no_name" (line 575), "exists" (line 584), "no_mnemonic"
\* (line 593), "no_password" (lines 619-626), "created"
CreateVaultCore(d, timer, typed, inp, ivs) ==
    LET name == Strip(typed)
        v1 == ("name" :> name)
        v2 == Put(Put(v1, "mnemonic", inp.mnemonic), "entropy", to_entropy(inp.mnemonic).val)
        enc == encrypt_mnemonic(inp.mnemonic, inp.pw, inp.salt_1, inp.salt_2)
        v3 == IF inp.confirm
              THEN Put(Put(Put(v2, "mnemonic_encrypted", enc[1]),
                           "mnemonic_salt_1", enc[2]), "mnemonic_salt_2", enc[3])
              ELSE v2
        s == VaultSave(v3, d, timer, <<>>, ivs)
        o == OpenVaultCore(v3, s.disk, s.ret, FALSE,
                           [pw_accepted |-> FALSE, pw |-> "", mnemonic |-> "", garbled |-> FALSE,
                            salt_1 |-> inp.salt_1, salt_2 |-> inp.salt_2,
                            new_salt |-> inp.new_salt])
    IN  IF name = <<>> THEN [how |-> "no_name", vault |-> EmptyDict, disk |-> d, timer |-> timer]
        ELSE IF \E pn \in Vaults(d) : pn[2] = name
        THEN [how |-> "exists", vault |-> EmptyDict, disk |-> d, timer |-> timer]
        ELSE IF inp.mnemonic = ""
        THEN [how |-> "no_mnemonic", vault |-> v1, disk |-> d, timer |-> timer]
        ELSE IF inp.confirm /\ inp.pw = ""
        THEN [how |-> "no_password", vault |-> CloseVaultCore(v2), disk |-> d, timer |-> timer]
        ELSE [how |-> "created", vault |-> o.vault, disk |-> s.disk, timer |-> s.timer]

\* _create_vault from the menu
CreateVault ==
    \E typed \in TypedNames, inp \in CreateInputs, ivs \in IvSeqs :
        LET r == CreateVaultCore(disk, save_timer, typed, inp, ivs)
        IN  /\ vault' = r.vault
            /\ disk' = r.disk
            /\ save_timer' = r.timer
            /\ controls' = (r.how = "created")
            /\ rendered' = IF r.how = "created" THEN Rendered(r.vault) ELSE {}
            /\ last' = Call("create_vault", r.how, ("name" :> typed), <<>>)
            /\ UNCHANGED scanvars

\* _rename_vault of the open vault; an empty or unchanged name is a call
\* that does nothing (line 1168)
RenameVault ==
    /\ controls
    /\ \E typed \in TypedNames, ivs \in IvSeqs :
        LET name_new == Strip(typed)
            path_old == vault["path"]
            removed == [p \in (DOMAIN disk) \ {path_old} |-> disk[p]]
            s == VaultSave(Put(vault, "name", name_new), removed, save_timer, <<>>, ivs)
        IN  IF name_new = <<>> \/ name_new = vault["name"] THEN UNCHANGED vars
            ELSE IF ~Has(disk, path_old)
            THEN /\ last' = Call("rename_vault", "exception", ("name" :> typed), <<>>)
                 /\ UNCHANGED <<vault, disk, save_timer, controls, rendered, scanvars>>
            ELSE /\ vault' = Put(Put(vault, "name", name_new), "path", s.ret)
                 /\ disk' = s.disk
                 /\ save_timer' = s.timer
                 /\ last' = Call("rename_vault", "renamed", ("name" :> typed), <<>>)
                 /\ UNCHANGED <<controls, rendered, scanvars>>

\* one vault on the disk when the program starts; vaults are created,
\* renamed, opened and closed
NameInit == Started({CurrentFile(FirstEntries, <<>>)})

NameNext ==
    \/ CreateVault
    \/ RenameVault
    \/ OpenVault
    \/ CloseVault

NameSpec == NameInit /\ [][NameNext]_vars

\* C35: creating or renaming a vault leaves the file of every other vault
\* as it was, and vaults of distinct names have distinct file paths.
C35_OtherVaultFilesAreKept ==
    [][/\ last'.op = "create_vault"
            => \A p \in DOMAIN disk : Has(disk', p) /\ disk'[p] = disk[p]
       /\ last'.op = "rename_vault"
            => \A p \in (DOMAIN disk) \ {vault["path"]} : Has(disk', p) /\ disk'[p] = disk[p]]_vars

----------------------------------------------------------------------------
(* _vault_action over every action: the reconciler on its own *)

\* the vault dict _open_vault leaves for a stored file (mnemonic m1 typed)
OpenedVault(f) ==
    OpenVaultCore(EmptyDict, (SafeFilePath(VaultName) :> f), SafeFilePath(VaultName), TRUE,
                  [pw_accepted |-> FALSE, pw |-> "", mnemonic |-> "m1", garbled |-> FALSE,
                   salt_1 |-> "s1", salt_2 |-> "iv1", new_salt |-> "s2"]).vault

\* action dicts as the GUI builds them or as json.loads gives them: with or
\* without "id", with any of the field keys
PlainActions ==
    {("act" :> a) @@ i @@ f :
        a \in {"add", "sync"}, i \in {EmptyDict} \cup {("id" :> x) : x \in Ids}, f \in FieldMaps}
    \cup {("act" :> "delete") @@ i : i \in {EmptyDict} \cup {("id" :> x) : x \in Ids}}

\* actions as _sync_to emits them: the whole entry sealed, "act" beside it
SealedActions == {Put(encrypt_entry(e, SenderKey, "iv1"), "act", "sync") : e \in Entries}

\* a vault open on a file with any entry list
Opened(lists) ==
    /\ \E l \in lists :
        /\ vault = OpenedVault(CurrentFile(l, <<>>))
        /\ disk = (SafeFilePath(VaultName) :> CurrentFile(l, <<>>))
        /\ rendered = Rendered(vault)
    /\ save_timer = FALSE
    /\ controls = TRUE
    /\ last = NoCall
    /\ ScanIdle

ActionInit == Opened(EntryLists(Entries))

\* _vault_action(action) with the defaults save=True, rerender=True, as the
\* GUI calls it for a plaintext action
VaultActionPlain ==
    \E action \in PlainActions, new_id \in NEW_IDS, ivs \in IvSeqs :
        /\ VaultActionStep("vault_action", action, None, TRUE, TRUE, new_id, ivs)
        /\ UNCHANGED controls

\* _vault_action(action, sync_key=...) for a sealed action: without a key,
\* with the key it was sealed under or with the key of another vault
VaultActionSealed ==
    \E action \in SealedActions,
       sync_key \in {None, SenderKey, Scrypt("e2", "s2", MASTER_KEY_COST)},
       new_id \in NEW_IDS, ivs \in IvSeqs :
        /\ VaultActionStep("vault_action", action, sync_key, TRUE, TRUE, new_id, ivs)
        /\ UNCHANGED controls

ActionNext ==
    \/ VaultActionPlain
    \/ VaultActionSealed

ActionSpec == ActionInit /\ [][ActionNext]_vars

----------------------------------------------------------------------------
(* _sync_to against a device snapshot while the vault moves on *)

\* snapshots a sync with device d1 left behind, newest entry first
DiffSnapshots ==
    { <<("id" :> "a") @@ ("site" :> "x")>>,
      <<("id" :> "b") @@ ("site" :> "x"), ("id" :> "a") @@ ("site" :> "x")>> }

\* the vault as the last sync with d1 left it: its entries are the snapshot
DiffInit ==
    /\ \E l \in DiffSnapshots :
        /\ vault = OpenedVault(CurrentFile(l, l))
        /\ disk = (SafeFilePath(VaultName) :> CurrentFile(l, l))
        /\ rendered = Rendered(vault)
    /\ save_timer = FALSE
    /\ controls = TRUE
    /\ last = NoCall
    /\ ScanIdle

\* the actions the vault takes in afterwards: entries added (with or without
\* a key outside the merge list), edited, deleted
EvolveAdds ==
    {("act" :> "add") @@ ("id" :> i) @@ f :
        i \in Ids, f \in {("site" :> "x"), ("site" :> "x") @@ ("url" :> "x")}}

EvolveSyncs == {("act" :> "sync") @@ ("id" :> i) @@ ("site" :> "y") : i \in Ids}

EvolveDeletes == {("act" :> "delete") @@ ("id" :> i) : i \in Ids}

EvolveAdd ==
    \E action \in EvolveAdds, ivs \in IvSeqs :
        /\ VaultActionStep("vault_action", action, None, TRUE, TRUE, "", ivs)
        /\ UNCHANGED controls

EvolveSync ==
    \E action \in EvolveSyncs, ivs \in IvSeqs :
        /\ VaultActionStep("vault_action", action, None, TRUE, TRUE, "", ivs)
        /\ UNCHANGED controls

EvolveDelete ==
    \E action \in EvolveDeletes, ivs \in IvSeqs :
        /\ VaultActionStep("vault_action", action, None, TRUE, TRUE, "", ivs)
        /\ UNCHANGED controls

DiffNext ==
    \/ EvolveAdd
    \/ EvolveSync
    \/ EvolveDelete

DiffSpec == DiffInit /\ [][DiffNext]_vars

\* the decrypted snapshot of device d1 (lines 996-1003)
DeviceSnapshot(v) ==
    LET dev == v["devices"]["d1"]
    IN  [i \in 1..Len(DeviceEntries(dev)) |-> decrypt_entry(DeviceEntries(dev)[i], DeviceKey(v, dev))]

\* _sync_to(clean_device=False) with d1 picked
DiffSession(v, sync_salt, ivs) == SyncToCore(v, FALSE, "d1", "", sync_salt, ivs, ivs)

\* the receiving device: a vault of the same mnemonic whose decrypted entries
\* are the snapshot
ReceiverVault(snapshot) == OpenedVault(CurrentFile(snapshot, <<>>))

\* the receiver's entries after _vault_action has applied the actions in
\* order under the session's key
Received(snapshot, actions, sync_key) ==
    EntriesDecrypted(ApplyActions(ReceiverVault(snapshot), actions, sync_key,
                                  [i \in 1..Len(actions) |-> ""], 1).vault)

----------------------------------------------------------------------------
(* The QR transport: ViewDialog's frames, the scanner worker, ScanDialog *)

QR_LIMIT_BYTES == 500

\* len(json.dumps(...).encode("utf-8")) of the pieces of a frame, as the
\* compact separators give them: the frame around an empty "acts" list,
\* a delete action, an add/sync action sealed from a short entry and one
\* sealed from an entry whose four line edits are full
FRAME_BYTES == 15

DELETE_BYTES == 35

SEALED_BYTES == {207, 527}

RECURSIVE SumBytes(_, _, _)
SumBytes(acts, bytes, k) ==
    IF k > Len(acts) THEN 0 ELSE bytes[acts[k]] + SumBytes(acts, bytes, k + 1)

\* view_dialog.py line 135-136: the byte length of data_str, one comma
\* between two actions
DataStrBytes(acts, bytes) ==
    FRAME_BYTES + SumBytes(acts, bytes, 1) + (IF Len(acts) > 1 THEN Len(acts) - 1 ELSE 0)

\* view_dialog.py lines 124-137: the loop over the actions from action k on
RECURSIVE DataDicts(_, _, _, _, _)
DataDicts(actions, bytes, k, index_data, data_dicts) ==
    IF k > Len(actions) THEN data_dicts
    ELSE LET opened == IF index_data >= Len(data_dicts)
                       THEN Append(data_dicts, [i |-> index_data, acts |-> <<>>])
                       ELSE data_dicts
             filled == [opened EXCEPT ![index_data + 1].acts = Append(@, actions[k])]
         IN  DataDicts(actions, bytes, k + 1,
                       IF DataStrBytes(filled[index_data + 1].acts, bytes) >= QR_LIMIT_BYTES
                       THEN index_data + 1 ELSE index_data,
                       filled)

\* the frame written with the number of frames built so far as "n"
DumpsRunningCount(data_dict, n) ==
    <<[key |-> "i", val |-> data_dict.i], [key |-> "acts", val |-> data_dict.acts],
      [key |-> "n", val |-> data_dict.i + 1]>>

\* json.dumps(data_dict, separators=(",", ":"))[1:][:-1]: the members in
\* insertion order, without the braces
Dumps(data_dict, n) ==
    <<[key |-> "i", val |-> data_dict.i], [key |-> "acts", val |-> data_dict.acts],
      [key |-> "n", val |-> n]>>

\* json.loads("{" + data + "}"): the dict of the members, None (an exception)
\* for a text that is not a list of members
Loads(data) ==
    IF \E m \in 1..Len(data) : DOMAIN data[m] # {"key", "val"} THEN None
    ELSE [k \in {data[m].key : m \in 1..Len(data)} |->
            data[CHOOSE m \in 1..Len(data) :
                    data[m].key = k /\ \A o \in (m + 1)..Len(data) : data[o].key # k].val]

\* view_dialog.py lines 120-143: ViewDialog._datas for a list of actions
FrameDatas(actions, bytes) ==
    LET data_dicts == DataDicts(actions, bytes, 1, 0, <<>>)
    IN  [f \in 1..Len(data_dicts) |-> Dumps(data_dicts[f], Len(data_dicts))]

\* a decoded text that is not a frame: a capture cut off after a key
GarbledData == <<[key |-> "i"]>>

\* a frame of some other sender whose part index is not below its part count
WrongIndexData ==
    <<[key |-> "i", val |-> 1],
      [key |-> "acts", val |-> <<("act" :> "delete") @@ ("id" :> "c")>>],
      [key |-> "n", val |-> 1]>>

\* the entry lists of the sending vault; its device snapshot is SenderSnapshot
SenderSnapshot == <<("id" :> "a") @@ ("site" :> "x")>>

SenderEntries ==
    { <<("id" :> "c") @@ ("site" :> "x"), ("id" :> "b") @@ ("site" :> "x"),
        ("id" :> "a") @@ ("site" :> "y")>>,
      <<("id" :> "b") @@ ("site" :> "x"), ("id" :> "a") @@ ("site" :> "y")>>,
      <<("id" :> "b") @@ ("site" :> "x")>> }

\* the actions of _sync_to's diff on the other device, sealed under the
\* session key of salt "s1"
SenderActions(entries) ==
    DiffActions(entries, SenderSnapshot, SenderKey, [i \in 1..Len(entries) |-> "iv1"])

\* the byte lengths the actions of a list can have
ActionBytes(actions) ==
    {bytes \in [Range(actions) -> SEALED_BYTES \cup {DELETE_BYTES}] :
        \A action \in Range(actions) :
            (bytes[action] = DELETE_BYTES) <=> (action["act"] = "delete")}

\* a sync-to session on the other device: its actions, its salt and key, and
\* the frames its view dialog shows
Sessions ==
    UNION { { [entries |-> entries, actions |-> SenderActions(entries), salt |-> "s1",
               key |-> SenderKey, datas |-> FrameDatas(SenderActions(entries), bytes)] :
                bytes \in ActionBytes(SenderActions(entries)) } :
            entries \in SenderEntries }

\* qr_scanner_thread.py lines 39-67 and Thread.start(): a started worker
StartedThread == [pc |-> "open", exit_flag |-> FALSE, actions |-> <<>>, exception |-> "",
                  camera |-> "closed", cancelled |-> FALSE]

\* a worker that also carries the session salt
THREAD_ATTRIBUTES_WITH_SALT == {"actions", "mnemonic", "exception", "_exit_flag", "sync_salt"}

\* the attributes a QRScannerThread instance has (set in __init__)
THREAD_ATTRIBUTES == {"actions", "mnemonic", "exception", "_exit_flag"}

\* every action of the frame appended, held already or not
AppendAll(actions, acts, k) == actions \o acts

\* lines 111-113: the frame's actions that the list does not hold yet
RECURSIVE AppendNew(_, _, _)
AppendNew(actions, acts, k) ==
    IF k > Len(acts) THEN actions
    ELSE AppendNew(IF acts[k] \in Range(actions) THEN actions ELSE Append(actions, acts[k]),
                   acts, k + 1)

\* a decoded text taken without the check of its part index
DecodedUnchecked(t, data) ==
    LET data_dict == Loads(data)
        part_idx == Get(data_dict, "i", 0)
        parts_total == Get(data_dict, "n", 1)
    IN  IF data_dict = None THEN t
        ELSE [t EXCEPT !.actions = AppendNew(@, Get(data_dict, "acts", <<>>), 1),
                       !.exit_flag = IF part_idx = parts_total - 1 THEN TRUE ELSE @]

\* lines 94-122 for one decoded text: the worker's fields afterwards
Decoded(t, data) ==
    LET data_dict == Loads(data)
        part_idx == Get(data_dict, "i", 0)
        parts_total == Get(data_dict, "n", 1)
    IN  IF data_dict = None \/ part_idx >= parts_total THEN t
        ELSE [t EXCEPT !.actions = AppendNew(@, Get(data_dict, "acts", <<>>), 1),
                       !.exit_flag = IF part_idx = parts_total - 1 THEN TRUE ELSE @]

\* run() lines 73-78: the camera opens and gives a first frame, or not
ThreadOpen ==
    /\ thread.pc = "open"
    /\ \E ret \in BOOLEAN :
        thread' = IF ret THEN [thread EXCEPT !.pc = "reset", !.camera = "open"]
                  ELSE [thread EXCEPT !.pc = "emit", !.exception = "open"]
    /\ UNCHANGED <<vault, disk, save_timer, controls, rendered, last, sender, dialog>>

\* run() lines 82-83
ThreadReset ==
    /\ thread.pc = "reset"
    /\ thread' = [thread EXCEPT !.pc = "test", !.exit_flag = FALSE]
    /\ UNCHANGED <<vault, disk, save_timer, controls, rendered, last, sender, dialog>>

\* a loop that reads on whatever the flag says
ThreadTestKeepsReading ==
    /\ thread.pc = "test"
    /\ thread' = [thread EXCEPT !.pc = "read"]
    /\ UNCHANGED <<vault, disk, save_timer, controls, rendered, last, sender, dialog>>

\* run() line 84
ThreadTest ==
    /\ thread.pc = "test"
    /\ thread' = [thread EXCEPT !.pc = IF thread.exit_flag THEN "release" ELSE "read"]
    /\ UNCHANGED <<vault, disk, save_timer, controls, rendered, last, sender, dialog>>

\* run() lines 86-166, one frame of the camera: the read fails (-1), the frame
\* shows no code (0), one of the sender's codes, a code that does not parse
\* or a code with a wrong part index
ThreadRead ==
    /\ thread.pc = "read"
    /\ \E shown \in -1..(Len(sender.datas) + 2) :
        thread' = IF shown = -1 THEN [thread EXCEPT !.pc = "emit", !.exception = "read"]
                  ELSE IF shown = 0 THEN [thread EXCEPT !.pc = "test"]
                  ELSE [Decoded(thread, IF shown = Len(sender.datas) + 2 THEN WrongIndexData
                                        ELSE IF shown = Len(sender.datas) + 1 THEN GarbledData
                                        ELSE sender.datas[shown])
                            EXCEPT !.pc = "test"]
    /\ UNCHANGED <<vault, disk, save_timer, controls, rendered, last, sender, dialog>>

\* run() lines 169-171
ThreadRelease ==
    /\ thread.pc = "release"
    /\ thread' = [thread EXCEPT !.pc = "emit", !.camera = "released"]
    /\ UNCHANGED <<vault, disk, save_timer, controls, rendered, last, sender, dialog>>

\* run() line 176: the signal is queued for the GUI thread, run() returns;
\* a worker that _camera_id_apply has disconnected queues nothing
ThreadEmit ==
    /\ thread.pc = "emit"
    /\ thread' = [thread EXCEPT !.pc = "done"]
    /\ dialog' = IF dialog.gui = "apply" THEN dialog ELSE [dialog EXCEPT !.pending = TRUE]
    /\ UNCHANGED <<vault, disk, save_timer, controls, rendered, last, sender>>

ThreadStep ==
    ThreadOpen \/ ThreadReset \/ ThreadTest \/ ThreadRead \/ ThreadRelease \/ ThreadEmit

\* _sync_from lines 294-300 and ScanDialog.exec lines 134-158: the dialog
\* opens on a new worker
SyncFromBegin ==
    /\ controls
    /\ vault # EmptyDict
    /\ dialog.gui = "idle"
    /\ dialog' = [NoDialog EXCEPT !.gui = "exec"]
    /\ thread' = StartedThread
    /\ UNCHANGED <<vault, disk, save_timer, controls, rendered, last, sender>>

\* ScanDialog._finished once the dialog closes: a live worker is cancelled
\* (QRScannerThread.cancel) and joined
Finished(d, t) ==
    IF t.pc # "done"
    THEN [dialog |-> [d EXCEPT !.gui = "join"],
          thread |-> IF t.exit_flag THEN t
                     ELSE [t EXCEPT !.exit_flag = TRUE, !.cancelled = TRUE]]
    ELSE [dialog |-> [d EXCEPT !.gui = "closed"], thread |-> t]

\* ScanDialog._qr_scanner_thread_finished, the slot of finished_signal
SlotScannerFinished ==
    /\ dialog.gui = "exec"
    /\ dialog.pending
    /\ IF thread.exception # ""
       THEN /\ dialog' = [dialog EXCEPT !.pending = FALSE]
            /\ UNCHANGED thread
       ELSE LET emits == "sync_salt" \in THREAD_ATTRIBUTES
                caught == [dialog EXCEPT !.pending = FALSE,
                                         !.caught = IF emits THEN thread.actions ELSE @,
                                         !.sync_salt = IF emits THEN Get(thread, "sync_salt", "")
                                                       ELSE @]
                f == Finished(caught, thread)
            IN  dialog' = f.dialog /\ thread' = f.thread
    /\ UNCHANGED <<vault, disk, save_timer, controls, rendered, last, sender>>

\* ScanDialog._camera_id_apply lines 213-223: a live worker is disconnected,
\* cancelled and joined; a worker that has returned is left as it is, and so
\* is a finished_signal of it that waits in the event queue.  Then a new
\* worker is started (lines 224-230).
CameraIdApply ==
    /\ dialog.gui = "exec"
    /\ IF thread.pc # "done"
       THEN /\ dialog' = [dialog EXCEPT !.gui = "apply"]
            /\ thread' = IF thread.exit_flag THEN thread
                          ELSE [thread EXCEPT !.exit_flag = TRUE, !.cancelled = TRUE]
       ELSE /\ thread' = StartedThread
            /\ UNCHANGED dialog
    /\ UNCHANGED <<vault, disk, save_timer, controls, rendered, last, sender>>

\* line 223: join() returns when run() has returned; lines 224-230
ApplyJoinReturn ==
    /\ dialog.gui = "apply"
    /\ thread.pc = "done"
    /\ thread' = StartedThread
    /\ dialog' = [dialog EXCEPT !.gui = "exec"]
    /\ UNCHANGED <<vault, disk, save_timer, controls, rendered, last, sender>>

\* the Cancel button or the window's close button
DialogReject ==
    /\ dialog.gui = "exec"
    /\ LET f == Finished(dialog, thread)
       IN  dialog' = f.dialog /\ thread' = f.thread
    /\ UNCHANGED <<vault, disk, save_timer, controls, rendered, last, sender>>

\* scan_dialog.py line 242: join() returns when run() has returned
JoinReturn ==
    /\ dialog.gui = "join"
    /\ thread.pc = "done"
    /\ dialog' = [dialog EXCEPT !.gui = "closed"]
    /\ UNCHANGED <<vault, disk, save_timer, controls, rendered, last, sender, thread>>

\* ScanDialog.exec lines 160-166 and _sync_from lines 301-329
SyncFromEnd ==
    /\ dialog.gui = "closed"
    /\ IF Len(dialog.caught) = 0
       THEN /\ UNCHANGED <<vault, disk, save_timer, controls, rendered>>
            /\ last' = Call("sync_from", "none", EmptyDict, <<>>)
       ELSE \E new_ids \in [1..Len(dialog.caught) -> NEW_IDS], ivs \in IvSeqs :
                SyncFromApply(dialog.caught, dialog.sync_salt, new_ids, ivs)
    /\ dialog' = NoDialog
    /\ UNCHANGED <<sender, thread>>

\* the receiving vault holds the sender's snapshot; the other device shows
\* one of the sessions
ScanInit ==
    /\ vault = OpenedVault(CurrentFile(SenderSnapshot, <<>>))
    /\ disk = (SafeFilePath(VaultName) :> CurrentFile(SenderSnapshot, <<>>))
    /\ rendered = Rendered(vault)
    /\ save_timer = FALSE
    /\ controls = TRUE
    /\ last = NoCall
    /\ sender \in Sessions
    /\ thread = NoThread
    /\ dialog = NoDialog

ScanNext ==
    \/ SyncFromBegin
    \/ ThreadOpen
    \/ ThreadReset
    \/ ThreadTest
    \/ ThreadRead
    \/ ThreadRelease
    \/ ThreadEmit
    \/ SlotScannerFinished
    \/ CameraIdApply
    \/ ApplyJoinReturn
    \/ DialogReject
    \/ JoinReturn
    \/ SyncFromEnd

ScanSpec == ScanInit /\ [][ScanNext]_vars

\* the operating system schedules a started thread until run() returns
ScanFairSpec == ScanSpec /\ WF_vars(ThreadStep)

----------------------------------------------------------------------------
(* Properties of opening a vault, checked under OpenSpec *)

DecryptionSteps == {"mnemonic", "entropy", "entry"}

SECRETS_HELD == {"mnemonic", "entropy", "master_key", "entries", "entries_decrypted"}

\* C5: when _open_vault fails at a decryption step (mnemonic decryption under
\* the master password, conversion of the mnemonic to entropy, decryption of a
\* stored entry), the vault dict is empty afterwards: no mnemonic, entropy,
\* key or entries stay in memory.
C5_FailedOpenLeavesClosed ==
    (last.op = "open_vault" /\ last.how \in {"open_error", "mnemonic_error"}
        /\ last.action["step"] \in DecryptionSteps)
    => (vault = EmptyDict /\ \A k \in SECRETS_HELD : ~Has(vault, k))

\* an open that decrypted the first stored entry and failed at the second
C5_Witness ==
    /\ last.op = "open_vault" /\ last.how = "open_error" /\ last.action["step"] = "entry"
    /\ \E p \in DOMAIN disk : Len(disk[p]["entries"]) = 2
    /\ vault = EmptyDict

\* C14: a successful open leaves in memory a master salt that is not the one
\* the file stores, the master key derived from it, and no encrypted entry;
\* and every write of the vault file stores that salt and the decrypted
\* entries, all of them, sealed under that key.
C14_OpenRotatesTheKey ==
    [][/\ (last'.op = "open_vault" /\ last'.how = "opened")
          => /\ vault'["master_salt"] # Get(disk[vault'["path"]], "master_salt", "")
             /\ vault'["master_key"]
                = entropy_to_master_key(vault'["entropy"], vault'["master_salt"])[1]
             /\ Get(vault', "entries", <<>>) = <<>>
       /\ (disk' # disk /\ vault' # EmptyDict)
          => LET f == disk'[vault'["path"]]
             IN  /\ f["master_salt"] = vault'["master_salt"]
                 /\ [i \in 1..Len(f["entries"]) |->
                        decrypt_entry(f["entries"][i], vault'["master_key"])]
                    = EntriesDecrypted(vault')]_vars

\* a file written after an open: it holds the salt of the rotated key
C14_Witness ==
    /\ last.op \in {"add_entry", "save_timer", "delete_entry"}
    /\ vault # EmptyDict
    /\ Len(EntriesDecrypted(vault)) = 2
    /\ vault["master_salt"] = "s2"
    /\ disk[vault["path"]]["master_salt"] = "s2"
    /\ Len(disk[vault["path"]]["entries"]) = 2

\* C19: opening a written vault file with the mnemonic of the vault that
\* wrote it gives the decrypted entries that were in memory at the write, in
\* the same order; and every open of a stored file gives the entries the file
\* stores, first to last.
C19_SaveThenOpenKeepsTheOrder ==
    [][/\ (disk' # disk /\ vault' # EmptyDict)
          => \A inp \in OpenInputs(disk'[vault'["path"]]) :
                LET r == OpenVaultCore(EmptyDict, disk', vault'["path"], TRUE, inp)
                IN  /\ (~inp.pw_accepted /\ inp.mnemonic = vault'["mnemonic"])
                       => r.how = "opened"
                    /\ (r.how = "opened" /\ r.vault["mnemonic"] = vault'["mnemonic"])
                       => EntriesDecrypted(r.vault) = EntriesDecrypted(vault')
       /\ (last'.op = "open_vault" /\ last'.how = "opened")
          => LET stored == disk[vault'["path"]]["entries"]
             IN  EntriesDecrypted(vault')
                 = [i \in 1..Len(stored) |-> EntryDict(stored[i]["enc"].pt)]]_vars

\* a vault reopened from a file that a save wrote with two entries
C19_Witness ==
    /\ last.op = "open_vault" /\ last.how = "opened"
    /\ vault # EmptyDict
    /\ Get(disk[vault["path"]], "master_salt", "") = "s2"
    /\ Len(disk[vault["path"]]["entries"]) = 2
    /\ vault["master_salt"] # "s2"
    /\ IdsOf(EntriesDecrypted(vault)) = <<"b", "a">>

\* the keys an entry can be sealed under: derived keys and legacy raw keys
EntryKeys ==
    {Scrypt(e, salt, MASTER_KEY_COST) : e \in Entropies, salt \in Salts}
    \cup {RawKey(e) : e \in Entropies}

Tampered(P) ==
    ({[P EXCEPT !["iv"] = "iv2"], Del(P, "iv"), Del(P, "enc"),
      [P EXCEPT !["enc"].padded = FALSE], [P EXCEPT !["enc"].compressed = FALSE],
      [P EXCEPT !["enc"].checksum = [md5 |-> {}]]}
     \cup {[P EXCEPT !["enc"].pt = EntryStr(R)] : R \in Entries}) \ {P}

\* the sealed entries the files on disk hold
StoredPayloads == UNION {Range(Get(disk[p], "entries", <<>>)) : p \in DOMAIN disk}

\* C28: decrypt_entry gives, for a stored payload or a tampered one and any
\* key, either None or the entry of which the payload is the sealing under
\* that key, whole; a tampered payload and a payload under another key give
\* None.
C28_DecryptIsAllOrNothing ==
    \A P \in StoredPayloads, K \in EntryKeys :
        /\ \A T \in {P} \cup Tampered(P) :
              LET r == decrypt_entry(T, K)
              IN  r = None \/ (Has(r, "id") /\ T = encrypt_entry(r, K, T["iv"]))
        /\ \A T \in Tampered(P) : decrypt_entry(T, K) = None
        /\ K # P["enc"].key => decrypt_entry(P, K) = None

\* an open that stopped at an entry sealed under another key than the vault's
C28_Witness ==
    /\ last.op = "open_vault" /\ last.how = "open_error" /\ last.action["step"] = "entry"
    /\ vault = EmptyDict
    /\ \E P \in StoredPayloads : P["enc"].key = Scrypt("e2", "s2", MASTER_KEY_COST)

\* C29: the master key of an open vault is derived from the entropy with the
\* cost parameter 2^20, block size 8 and parallelism 1, and the key that
\* protects a stored mnemonic in the current format with the cost 2^16.
C29_MasterKeyCostIsTwoToTheTwenty ==
    /\ (vault # EmptyDict /\ Has(vault, "master_key"))
       => (/\ vault["master_key"].N = GUI_MASTER_KEY_COST
           /\ vault["master_key"].r = 8
           /\ vault["master_key"].p = 1)
    /\ \A p \in DOMAIN disk :
          (Has(disk[p], "mnemonic_encrypted") /\ Has(disk[p], "mnemonic_salt_1"))
          => disk[p]["mnemonic_encrypted"].key.N = 65536

\* C30: a vault file of the current format version that holds an encrypted
\* mnemonic holds it in the current format: with both of its salts, and so
\* that the master password opens it.
C30_WrittenMnemonicIsCurrentFormat ==
    \A p \in DOMAIN disk :
        (/\ Has(disk[p], "version") /\ disk[p]["version"] = RunningVersion
         /\ Has(disk[p], "mnemonic_encrypted"))
        => /\ Has(disk[p], "mnemonic_salt_1") /\ Has(disk[p], "mnemonic_salt_2")
           /\ ~Has(disk[p], "mnemonic_encrypted_iv")
           /\ decrypt_mnemonic(disk[p]["mnemonic_encrypted"], "pw1",
                               disk[p]["mnemonic_salt_1"], disk[p]["mnemonic_salt_2"]).ok

\* C32: an edit is not lost: when the vault is closed, or another open
\* replaces it, the file of the vault holds the entries that were in memory,
\* the edits made since the last save among them.
C32_EditsReachTheFile ==
    [][(Has(vault, "path") /\ last'.op \in {"close_vault", "open_vault"})
       => LET stored == disk'[vault["path"]]["entries"]
          IN  [i \in 1..Len(stored) |-> EntryDict(stored[i]["enc"].pt)]
              = EntriesDecrypted(vault)]_vars

\* C34: when _open_vault has returned, the vault in memory is either fully
\* open (path, entropy, master_key and master_salt) or empty.
C34_OpenLeavesTheVaultOpenOrEmpty ==
    last.op = "open_vault"
        => \/ vault = EmptyDict
           \/ {"path", "entropy", "master_key", "master_salt"} \subseteq DOMAIN vault

\* C33: the callback of the save timer runs only on an open vault with a
\* path, which it saves, and it leaves the timer stopped.
C33_TimerRunsOnAnOpenVaultOnly ==
    last.op = "save_timer" => (last.how = "saved" /\ Has(vault, "path") /\ ~save_timer)

\* C18: an open of a file whose version is above the running one ends in the
\* error branch at the version check, before the password and mnemonic
\* dialogs and before any entry is decrypted, with the vault dict empty.
C18_NewerFileIsRefused ==
    (/\ last.op = "open_vault"
     /\ \E p \in DOMAIN disk :
          LET file_version == disk[p]["version"]
          IN  \/ file_version[1] > RunningVersion[1]
              \/ file_version[1] = RunningVersion[1] /\ file_version[2] > RunningVersion[2])
    => (/\ last.how = "open_error"
        /\ last.action["step"] = "version"
        /\ last.action["master_password"] = ""
        /\ vault = EmptyDict
        /\ ~controls)

\* the file of a later release was picked and refused
C18_Witness ==
    /\ last.op = "open_vault" /\ last.how = "open_error" /\ last.action["step"] = "version"
    /\ \E p \in DOMAIN disk : disk[p]["version"] = NewerVersion /\ Len(disk[p]["entries"]) = 1
    /\ vault = EmptyDict

\* the mnemonic fields a vault dict or a vault file can hold
MNEMONIC_KEYS == {"mnemonic_encrypted", "mnemonic_encrypted_iv", "mnemonic_salt_1",
                  "mnemonic_salt_2"}

MnemonicFields(d) == [k \in (DOMAIN d) \cap MNEMONIC_KEYS |-> d[k]]

\* C17: an open of a file below version 2 with the master password takes
\* the mnemonic from the legacy scheme and leaves in memory mnemonic_encrypted,
\* mnemonic_salt_1 and mnemonic_salt_2 and no mnemonic_encrypted_iv, such that
\* the password decrypts them to the same words; no later handler touches
\* these fields while the vault is open, and every write of the file stores
\* them under the running version.
C17_LegacyMnemonicIsUpgraded ==
    [][/\ (/\ last'.op = "open_vault" /\ last'.how = "opened"
           /\ last'.action["master_password"] # ""
           /\ disk[vault'["path"]]["version"][1] < 2)
          => LET f == disk[vault'["path"]]
                 master_password == last'.action["master_password"]
             IN  /\ decrypt_mnemonic_old(f["mnemonic_encrypted"], master_password,
                                         f["mnemonic_encrypted_iv"], FALSE)
                    = [ok |-> TRUE, val |-> vault'["mnemonic"]]
                 /\ DOMAIN MnemonicFields(vault')
                    = {"mnemonic_encrypted", "mnemonic_salt_1", "mnemonic_salt_2"}
                 /\ decrypt_mnemonic(vault'["mnemonic_encrypted"], master_password,
                                     vault'["mnemonic_salt_1"], vault'["mnemonic_salt_2"])
                    = [ok |-> TRUE, val |-> vault'["mnemonic"]]
       /\ (last'.op # "open_vault" /\ vault # EmptyDict /\ vault' # EmptyDict)
          => MnemonicFields(vault') = MnemonicFields(vault)
       /\ (disk' # disk /\ vault' # EmptyDict)
          => /\ MnemonicFields(disk'[vault'["path"]]) = MnemonicFields(vault')
             /\ disk'[vault'["path"]]["version"] = RunningVersion]_vars

\* the upgraded vault was saved: the file is of the running version and pw1
\* opens its mnemonic with the salts the upgrade drew
C17_Witness ==
    /\ last.op \in {"add_entry", "save_timer", "delete_entry"}
    /\ vault # EmptyDict
    /\ LET f == disk[vault["path"]]
       IN  /\ f["version"] = RunningVersion
           /\ DOMAIN MnemonicFields(f)
              = {"mnemonic_encrypted", "mnemonic_salt_1", "mnemonic_salt_2"}
           /\ f["mnemonic_salt_1"] = "s2"
           /\ decrypt_mnemonic(f["mnemonic_encrypted"], "pw1", "s2", f["mnemonic_salt_2"])
              = [ok |-> TRUE, val |-> "m1"]

----------------------------------------------------------------------------
(* Properties of the handlers, checked under Spec *)

----------------------------------------------------------------------------
(* Properties of _vault_action, checked under ActionSpec *)

\* the call recorded in c is an add / sync whose action carries an identifier
\* (in the clear, or inside its ciphertext)
CarriesId(c) ==
    /\ c.op = "vault_action"
    /\ Get(c.action, "act", "") \in {"add", "sync"}
    /\ (Has(c.action, "id") \/ (Has(c.action, "enc") /\ Has(c.action, "iv")))

\* the entry that action stands for
Carried(c) == ActionEntry(c.action, c.sync_key, "b")

\* the position in entries of the entry the call targets, 0 if there is none
Target(c, entries) ==
    IF CarriesId(c) /\ Carried(c).ok
    THEN _id_to_entry(entries, Carried(c).val["id"])[1]
    ELSE 0

\* C7: after a sync action that carries an identifier has been applied,
\* applying the same action again with the same key leaves the decrypted
\* entry list (entries, fields, order) as it is.
C7_SyncTwiceIsOnce ==
    (CarriesId(last) /\ last.action["act"] = "sync")
    => \A new_id \in NEW_IDS :
        EntriesDecrypted(VaultActionCore(vault, last.action, last.sync_key, new_id).vault)
            = EntriesDecrypted(vault)

\* a sync for id "a" was applied to a vault that already held "b"
C7_Witness ==
    /\ CarriesId(last) /\ last.action["act"] = "sync" /\ last.how = "done"
    /\ Carried(last).val["id"] = "a"
    /\ Len(EntriesDecrypted(vault)) = 2
    /\ EntriesDecrypted(vault)[1]["id"] = "a"
    /\ Get(EntriesDecrypted(vault)[1], "site", "") = "y"

\* C8: when an add / sync action targets an identifier the vault holds, the
\* fields of that entry the action does not carry keep their values, every
\* other entry is unchanged and so is the order of the list.
C8_MergeKeepsTheRest ==
    [][LET old == EntriesDecrypted(vault)
           new == EntriesDecrypted(vault')
           i == Target(last', old)
       IN  (last'.how = "done" /\ i # 0)
           => /\ Len(new) = Len(old)
              /\ \A j \in 1..Len(old) : j # i => new[j] = old[j]
              /\ \A k \in (DOMAIN old[i]) \ (DOMAIN Carried(last').val) :
                    Has(new[i], k) /\ new[i][k] = old[i][k]
              /\ new[i]["id"] = old[i]["id"]]_vars

\* entry "a" took the site of a sync that carried no url and still has its
\* url, below entry "b"
C8_Witness ==
    /\ CarriesId(last) /\ last.how = "done"
    /\ Carried(last).val = ("id" :> "a") @@ ("site" :> "y")
    /\ EntriesDecrypted(vault) = <<("id" :> "b") @@ ("site" :> "x"),
                                   ("id" :> "a") @@ ("site" :> "y") @@ ("url" :> "x")>>

\* C9: when an add / sync action targets an identifier the vault holds, every
\* field key the action carries has the action's value in the entry afterwards.
C9_MergeTakesEveryCarriedField ==
    [][LET old == EntriesDecrypted(vault)
           new == EntriesDecrypted(vault')
           i == Target(last', old)
       IN  (last'.how = "done" /\ i # 0)
           => \A k \in DOMAIN Carried(last').val :
                 Has(new[i], k) /\ new[i][k] = Carried(last').val[k]]_vars

\* C26: a delete action takes out of the decrypted list the entry that has
\* the action's identifier and nothing else: the other entries stay, in
\* their order; when no entry has the identifier, or the action has none,
\* the list stays as it is; in both cases _vault_action reports success.
C26_DeleteRemovesOnlyItsEntry ==
    [][(last'.op = "vault_action" /\ Get(last'.action, "act", "") = "delete")
       => LET unique_id == Get(last'.action, "id", "")
              old == EntriesDecrypted(vault)
              new == EntriesDecrypted(vault')
          IN  /\ last'.how = "done"
              /\ new = SelectSeq(old, LAMBDA e : e["id"] # unique_id)
              /\ Len(new) = IF unique_id \in Range(IdsOf(old)) THEN Len(old) - 1
                             ELSE Len(old)]_vars

\* the delete of "a" has left the one other entry of the list
C26_Witness ==
    /\ last.op = "vault_action" /\ last.how = "done"
    /\ Get(last.action, "act", "") = "delete" /\ Get(last.action, "id", "") = "a"
    /\ Len(EntriesDecrypted(vault)) = 1
    /\ EntriesDecrypted(vault)[1]["id"] = "b"
    /\ Len(disk[vault["path"]]["entries"]) = 1

\* C37: _vault_action on a sealed add / sync action without a key, or with a
\* key that does not open it, returns False, and the vault, its file, the
\* timer and the rows stay as they were.
C37_UnopenedActionChangesNothing ==
    [][(/\ last'.op = "vault_action"
        /\ Has(last'.action, "enc") /\ Has(last'.action, "iv")
        /\ \/ last'.sync_key = None
           \/ decrypt_entry(last'.action, last'.sync_key) = None)
       => /\ last'.how = "exception"
          /\ vault' = vault /\ disk' = disk
          /\ save_timer' = save_timer /\ rendered' = rendered]_vars

C37_Witness ==
    /\ last.op = "vault_action" /\ last.how = "exception"
    /\ Has(last.action, "enc")
    /\ last.sync_key \notin {None, SenderKey}
    /\ Len(EntriesDecrypted(vault)) = 2

\* C16: the decrypted entries of a vault that was opened on distinct
\* identifiers never hold one identifier twice, whatever add, sync and delete
\* actions were applied, with the identifier given or generated.
C16_IdsStayDistinct == DistinctIds(EntriesDecrypted(vault))

\* an add that named the identifier of the second entry was merged into it
C16_Witness ==
    /\ last.op = "vault_action" /\ last.how = "done"
    /\ last.action["act"] = "add"
    /\ Get(last.action, "id", "") = "a"
    /\ Get(last.action, "site", "") = "y"
    /\ Len(EntriesDecrypted(vault)) = 2
    /\ EntriesDecrypted(vault)[2]["id"] = "a"
    /\ Get(EntriesDecrypted(vault)[2], "site", "") = "y"

----------------------------------------------------------------------------
(* Properties of the diff, checked under DiffSpec *)

\* C1: the actions _sync_to computes for device d1, applied to a receiver that
\* holds the snapshot, leave the receiver with the vault's identifiers and,
\* for each identifier, the vault's fields; every identifier of the snapshot
\* that the vault no longer holds gets a delete action.
C1_DiffCompletes ==
    \A sync_salt \in FreshSalts(vault), ivs \in IvSeqs :
        LET s == DiffSession(vault, sync_salt, ivs)
            snapshot == DeviceSnapshot(vault)
            received == Received(snapshot, s.actions, s.key)
        IN  /\ Range(received) = Range(EntriesDecrypted(vault))
            /\ \A i \in Range(IdsOf(snapshot)) \ Range(IdsOf(EntriesDecrypted(vault))) :
                  \E k \in 1..Len(s.actions) :
                      s.actions[k] = ("act" :> "delete") @@ ("id" :> i)

C11_DiffIsMinimal ==
    \A sync_salt \in FreshSalts(vault), ivs \in IvSeqs :
        LET s == DiffSession(vault, sync_salt, ivs)
            snapshot == DeviceSnapshot(vault)
        IN  /\ Range(snapshot) = Range(EntriesDecrypted(vault)) => s.actions = <<>>
            /\ \A k \in 1..Len(s.actions) :
                  s.actions[k]["act"] # "delete"
                  => decrypt_entry(s.actions[k], s.key) \notin Range(snapshot)

\* the vault has changed one entry and kept another as d1 holds it: the
\* session sends the one and not the other
C11_Witness ==
    /\ last.op = "vault_action"
    /\ \E sync_salt \in FreshSalts(vault), ivs \in IvSeqs :
        LET s == DiffSession(vault, sync_salt, ivs)
        IN  /\ Len(s.actions) = 1
            /\ s.actions[1]["act"] = "sync"
            /\ Len(EntriesDecrypted(vault)) = 2
            /\ \E e \in Range(EntriesDecrypted(vault)) : e \in Range(DeviceSnapshot(vault))

\* C12: in the action list _sync_to computes, no delete action comes after an
\* add or sync action.
C12_DeletesComeFirst ==
    \A sync_salt \in FreshSalts(vault), ivs \in IvSeqs :
        LET actions == DiffSession(vault, sync_salt, ivs).actions
        IN  \A i, j \in 1..Len(actions) :
                (i < j /\ actions[j]["act"] = "delete") => actions[i]["act"] = "delete"

\* a session with a delete and, after it, an add or sync
C12_Witness ==
    /\ last.op = "vault_action"
    /\ \E sync_salt \in FreshSalts(vault), ivs \in IvSeqs :
        LET actions == DiffSession(vault, sync_salt, ivs).actions
        IN  /\ Len(actions) = 2
            /\ actions[1]["act"] = "delete"
            /\ actions[2]["act"] \in {"add", "sync"}

----------------------------------------------------------------------------
(* Properties of _sync_to as a handler, checked under Spec *)

\* C31: every vault file holds its master salt, and each of its entries
\* decrypts under the key derived from the vault's entropy and that salt,
\* whatever was opened, edited, synchronised, saved or closed before; while
\* the vault is open the entropy is the one in memory.
C31_StoredEntriesMatchTheStoredSalt ==
    \A p \in DOMAIN disk :
        /\ Has(disk[p], "master_salt")
        /\ \E entropy \in Entropies :
              /\ \A i \in 1..Len(disk[p]["entries"]) :
                    decrypt_entry(disk[p]["entries"][i],
                                  entropy_to_master_key(entropy, disk[p]["master_salt"])[1])
                    # None
              /\ (Has(vault, "entropy") /\ Get(vault, "path", <<>>) = p)
                 => entropy = vault["entropy"]

\* a vault closed after a save under a rotated key: the file holds the new
\* salt and two entries
C31_Witness ==
    /\ last.op = "close_vault"
    /\ vault = EmptyDict
    /\ \E p \in DOMAIN disk :
          /\ disk[p]["master_salt"] = "s2"
          /\ Len(disk[p]["entries"]) = 2

\* C13: after _sync_to has computed a non-empty action list for a named
\* device, the devices map holds the device with the session's salt and a
\* snapshot that decrypts, under the session's key, to the vault's entries in
\* order, and the vault file holds the same devices map.
C13_SyncToStoresTheSnapshot ==
    (last.op = "sync_to" /\ last.actions # <<>> /\ last.action["device"] # "")
    => LET devices == Get(vault, "devices", EmptyDict)
           device_name == last.action["device"]
           sync_key == entropy_to_master_key(vault["entropy"], last.action["sync_salt"])[1]
       IN  /\ Has(devices, device_name)
           /\ ~IsOldDevice(devices[device_name])
           /\ devices[device_name]["salt"] = last.action["sync_salt"]
           /\ [i \in 1..Len(devices[device_name]["entries"]) |->
                  decrypt_entry(devices[device_name]["entries"][i], sync_key)]
              = EntriesDecrypted(vault)
           /\ disk[vault["path"]]["devices"] = devices

\* C15: a vault file written by _vault_save holds none of the keys mnemonic,
\* entropy, master_key, entries_decrypted and path, and each of its entries
\* is a sealed one ("enc" and "iv", no field in the clear).
C15_SavedFileHoldsNoSecret ==
    [][\A p \in DOMAIN disk' :
          (p \notin DOMAIN disk \/ disk'[p] # disk[p])
          => /\ DOMAIN disk'[p]
                \cap {"mnemonic", "entropy", "master_key", "entries_decrypted", "path"} = {}
             /\ \A i \in 1..Len(disk'[p]["entries"]) :
                    DOMAIN disk'[p]["entries"][i] = {"enc", "iv"}]_vars

\* a file written while the vault in memory holds its secrets and two entries
C15_Witness ==
    /\ last.op = "add_entry"
    /\ last.how = "done"
    /\ {"mnemonic", "entropy", "master_key", "entries_decrypted", "path"} \subseteq DOMAIN vault
    /\ Len(EntriesDecrypted(vault)) = 2
    /\ Len(disk[vault["path"]]["entries"]) = 2

----------------------------------------------------------------------------
(* Properties of the QR transport, checked under ScanSpec and ScanFairSpec *)

\* the scan session ended on its own: run() returned without an exception
\* and cancel() never set the flag
ScanCompleted == thread.pc = "done" /\ thread.exception = "" /\ ~thread.cancelled

\* C2: for an action list shown as two or more frames, a scan session that
\* ends on its own, whatever the order and the repetitions of the frames the
\* camera saw, has accumulated the sender's action list: the same actions in
\* the same order.
C2_ScanRebuildsTheList ==
    (ScanCompleted /\ Len(sender.datas) >= 2) => thread.actions = sender.actions

\* the entries an add/sync action of the session carries
SessionEntries == {decrypt_entry(sender.actions[k], sender.key) :
                    k \in {i \in 1..Len(sender.actions) : sender.actions[i]["act"] # "delete"}}

\* C3: when sync-from ends after the scanner has read the whole action list
\* of a session sealed under a fresh key, the session's salt has come with the
\* actions: sync-from derived the sender's key and every add/sync action of
\* the session is applied in the receiving vault.
C3_SaltComesWithTheActions ==
    (/\ last.op = "sync_from"
     /\ dialog.gui = "idle"
     /\ ScanCompleted
     /\ thread.actions = sender.actions
     /\ SessionEntries # {})
    => (/\ last.how = "applied"
        /\ last.sync_key = sender.key
        /\ SessionEntries \subseteq Range(EntriesDecrypted(vault)))

\* the "acts" lists of the frames from frame k on, one after the other
RECURSIVE FramesActs(_, _)
FramesActs(datas, k) ==
    IF k > Len(datas) THEN <<>> ELSE Loads(datas[k])["acts"] \o FramesActs(datas, k + 1)

\* C20: the frames the view dialog shows for a non-empty action list carry
\* the part indices 0..n-1 in order, each with "n" equal to the number of
\* frames and with at least one action, and their "acts" lists joined in
\* index order are the action list; a list below the size limit is one frame
\* with i = 0 and n = 1.
C20_FramesPartitionTheActions ==
    sender.actions # <<>>
    => /\ Len(sender.datas) >= 1
       /\ \A f \in 1..Len(sender.datas) :
             LET frame == Loads(sender.datas[f])
             IN  /\ frame # None
                 /\ DOMAIN frame = {"i", "acts", "n"}
                 /\ frame["i"] = f - 1
                 /\ frame["n"] = Len(sender.datas)
                 /\ Len(frame["acts"]) >= 1
       /\ FramesActs(sender.datas, 1) = sender.actions
       /\ (\E bytes \in ActionBytes(sender.actions) :
              /\ sender.datas = FrameDatas(sender.actions, bytes)
              /\ DataStrBytes(sender.actions, bytes) < QR_LIMIT_BYTES)
          => (Len(sender.datas) = 1 /\ Loads(sender.datas[1])["i"] = 0
              /\ Loads(sender.datas[1])["n"] = 1)

\* a session of three actions in two frames, the first with two actions,
\* of which the worker has decoded one
C20_Witness ==
    /\ Len(sender.actions) = 3
    /\ Len(sender.datas) = 2
    /\ Len(Loads(sender.datas[1])["acts"]) = 2
    /\ thread.actions # <<>>

\* C21: a session whose actions, in the compact encoding and joined by
\* commas, take more bytes than the limit is shown in as many frames as the
\* limit goes into that size, rounded up.
C21_FrameCountIsSizeOverLimit ==
    \A bytes \in ActionBytes(sender.actions) :
        LET size == DataStrBytes(sender.actions, bytes) - FRAME_BYTES
        IN  (sender.datas = FrameDatas(sender.actions, bytes) /\ size > QR_LIMIT_BYTES)
            => Len(sender.datas) = (size + QR_LIMIT_BYTES - 1) \div QR_LIMIT_BYTES

\* C22: the worker's action list never holds the same action twice, and a
\* frame all of whose actions the list holds already, read once more or many
\* times more, leaves the list as it is.
C22_ScannedActionsAreDistinct ==
    /\ \A i, j \in 1..Len(thread.actions) : thread.actions[i] = thread.actions[j] => i = j
    /\ \A f \in 1..Len(sender.datas) :
          LET once == Decoded(thread, sender.datas[f])
              twice == Decoded(once, sender.datas[f])
          IN  /\ twice.actions = once.actions
              /\ Range(Loads(sender.datas[f])["acts"]) \subseteq Range(thread.actions)
                 => once.actions = thread.actions

\* the worker is about to read the next camera frame, has the two actions of
\* the first frame of a two-frame session and has not seen the last frame
C22_Witness ==
    /\ thread.pc = "read"
    /\ Len(sender.datas) = 2
    /\ Len(thread.actions) = 2
    /\ thread.actions = Loads(sender.datas[1])["acts"]

\* C23: a decoded text that is not JSON, or a frame whose part index is not
\* below its part count, changes nothing in the worker: the action list, the
\* stop flag and the exception are as before, and the worker goes back to
\* the test of its loop.
C23_RejectedTextChangesNothing ==
    thread.pc = "read"
    => \A data \in {GarbledData, WrongIndexData} :
          /\ Loads(data) = None \/ Loads(data)["i"] >= Loads(data)["n"]
          /\ Decoded(thread, data) = thread

\* a session under way: some actions accumulated, the stop flag clear, the
\* worker at the camera read where such a text can arrive
C23_Witness ==
    /\ thread.pc = "read"
    /\ thread.actions # <<>>
    /\ ~thread.exit_flag
    /\ dialog.gui = "exec"

\* C24: the slot of finished_signal, the only place where the dialog reads
\* the worker's result, runs on a worker that has returned from run(): the
\* worker whose result is read appends nothing any more.
C24_ResultReadAfterTheWorkerEnded ==
    [][(dialog.gui = "exec" /\ dialog.pending /\ ~dialog'.pending /\ thread.exception = "")
       => thread.pc = "done"]_vars

\* C25: a scan session whose worker was cancelled before it saw a frame with
\* the last part index delivers no result: nothing is caught from
\* result_signal, ScanDialog.exec returns None and _sync_from leaves the
\* vault and its file as they were.
C25_CancelledScanGivesNoResult ==
    [][/\ thread'.cancelled => dialog'.caught = <<>>
       /\ (dialog.gui = "closed" /\ dialog'.gui = "idle" /\ thread.cancelled)
          => (/\ last'.op = "sync_from" /\ last'.how = "none"
              /\ vault' = vault
              /\ disk' = disk)]_vars

\* sync-from has returned after a cancelled session in which the worker had
\* accumulated the actions of a first frame
C25_Witness ==
    /\ last.op = "sync_from" /\ last.how = "none"
    /\ dialog.gui = "idle"
    /\ thread.cancelled /\ thread.pc = "done"
    /\ thread.actions # <<>>
    /\ Len(thread.actions) < Len(sender.actions)

\* C36: once the worker has taken in a well-formed frame with the last part
\* index (its exit flag is set and nobody cancelled it), it reads no further
\* frame, its action list stays as it is, and run() goes on to emit
\* finished_signal and return.
C36_FinalFrameStopsTheScan ==
    /\ [][(thread.exit_flag /\ ~thread.cancelled)
            => /\ thread'.pc # "read"
               /\ thread' # StartedThread => thread'.actions = thread.actions]_vars
    /\ (thread.exit_flag /\ ~thread.cancelled) ~> (thread.pc = "done")

C36_Witness ==
    /\ thread.pc = "done" /\ thread.exit_flag /\ ~thread.cancelled
    /\ thread.exception = "" /\ thread.camera = "released"
    /\ Len(thread.actions) = 2
    /\ dialog.pending

\* C38: a run() that had opened the camera has released it when it emits
\* finished_signal and returns.
C38_CameraReleasedBeforeTheSignal ==
    (thread.pc = "done" /\ thread.camera # "closed") => thread.camera = "released"

\* C4: once the dialog has called cancel() on a started worker and waits in
\* join(), the worker ends: run() returns having emitted finished_signal and,
\* when no camera read raised, having released the camera.
C4_CancelledWorkerEnds ==
    (dialog.gui = "join")
        ~> (thread.pc = "done" /\ (thread.exception = "" => thread.camera = "released"))

====
